---- MODULE Spec2Model ----
(***************************************************************************)
(* Inventory item store (ItemManager) and filter engine (FilterHandler).   *)
(*                                                                         *)
(* JavaScript values are tagged pairs:                                     *)
(*   <<"num", n>>   the number n                                           *)
(*   <<"str", s>>   the string whose characters are the sequence s         *)
(*   <<"iso", t>>   the string new Date(t).toISOString()                   *)
(*   <<"nan", 0>>   NaN,   <<"undef", 0>>   undefined                      *)
(* An object is a function from the names of its own properties to values. *)
(* A Map is the sequence of its entries [k, v] in insertion order.         *)
(***************************************************************************)
EXTENDS Integers, Sequences, FiniteSets, TLC

VARIABLES
    items,        \* ItemManager.items   (Map id -> item)
    nextId,       \* ItemManager.nextId
    now,          \* the last reading of the system clock (new Date())
    searchQuery,  \* FilterHandler.searchQuery
    filters,      \* FilterHandler.filters
    importCall,   \* the importItems call in progress: its arguments, row and results
    app,          \* InventoryApp: filteredItems, currentPage, selectedItems
    table,        \* the rows of the rendered table body
    modal,        \* ModalHandler.currentCallback and the edit modal element
    lastOp,       \* name of the last completed call or step
    lastArg,      \* its arguments
    lastRet       \* its return value

vars ==
    <<items, nextId, now, searchQuery, filters, importCall, app, table, modal,
      lastOp, lastArg, lastRet>>

storeVars == <<items, nextId, now>>
filterVars == <<searchQuery, filters>>
uiVars == <<app, table, modal>>
histVars == <<lastOp, lastArg, lastRet>>

-----------------------------------------------------------------------------
(* Bounds of the model *)

MaxItems == 3       \* entries in the Map
MaxNextId == 2      \* largest value of the id counter
MaxClock == 1       \* clock readings 0..MaxClock
MaxImportNextId == 3  \* largest value of the id counter in the import specification
MaxTimers == 2      \* closeModal timeouts that have not fired

-----------------------------------------------------------------------------
(* JavaScript values *)

Num(n) == <<"num", n>>
Str(s) == <<"str", s>>
Iso(t) == <<"iso", t>>
NaN == <<"nan", 0>>
Undef == <<"undef", 0>>

IsNum(v) == v[1] = "num"
IsStr(v) == v[1] = "str"

\* obj[name], undefined when obj has no such property
Get(obj, name) == IF name \in DOMAIN obj THEN obj[name] ELSE Undef

\* ToBoolean: 0, NaN, "" and undefined are falsy
Truthy(v) ==
    CASE v[1] = "num" -> v[2] # 0
      [] v[1] = "str" -> v[2] # <<>>
      [] v[1] = "iso" -> TRUE
      [] OTHER -> FALSE

\* { ...a, ...b }
Spread(a, b) ==
    [n \in (DOMAIN a) \cup (DOMAIN b) |-> IF n \in DOMAIN b THEN b[n] ELSE a[n]]

EmptyObj == [n \in {} |-> Undef]

-----------------------------------------------------------------------------
(* Strings: sequences of one-character strings *)

LowerChar(c) ==
    CASE c = "A" -> "a"
      [] c = "B" -> "b"
      [] OTHER -> c

\* String.prototype.toLowerCase
toLowerCase(s) == [i \in 1..Len(s) |-> LowerChar(s[i])]

IsSpace(c) == c = " "

RECURSIVE trimStart(_)
trimStart(s) ==
    IF s # <<>> /\ IsSpace(Head(s)) THEN trimStart(Tail(s)) ELSE s

RECURSIVE trimEnd(_)
trimEnd(s) ==
    IF s # <<>> /\ IsSpace(s[Len(s)]) THEN trimEnd(SubSeq(s, 1, Len(s) - 1)) ELSE s

\* String.prototype.trim
trim(s) == trimEnd(trimStart(s))

\* String.prototype.includes
includes(s, t) ==
    \E i \in 1..(Len(s) - Len(t) + 1) : SubSeq(s, i, i + Len(t) - 1) = t

-----------------------------------------------------------------------------
(* Map: entries in insertion order *)

MapHas(m, k) == \E i \in 1..Len(m) : m[i].k = k

MapIndex(m, k) == CHOOSE i \in 1..Len(m) : m[i].k = k

\* Map.prototype.get, as the sequence of the zero or one values found
MapGet(m, k) == IF MapHas(m, k) THEN <<m[MapIndex(m, k)].v>> ELSE <<>>

\* Map.prototype.set: an existing key keeps its position
MapSet(m, k, v) ==
    IF MapHas(m, k)
    THEN [m EXCEPT ![MapIndex(m, k)] = [k |-> k, v |-> v]]
    ELSE Append(m, [k |-> k, v |-> v])

\* Map.prototype.delete
MapDelete(m, k) == SelectSeq(m, LAMBDA e : e.k # k)

\* Array.from(map.values())
MapValues(m) == [i \in 1..Len(m) |-> m[i].v]

-----------------------------------------------------------------------------
(* Number parsing *)

IsDigit(c) == c \in {"0", "1", "2", "3"}

DigitVal(c) ==
    CASE c = "0" -> 0
      [] c = "1" -> 1
      [] c = "2" -> 2
      [] c = "3" -> 3

\* the longest prefix of s made of digits
RECURSIVE DigitPrefix(_)
DigitPrefix(s) ==
    IF s # <<>> /\ IsDigit(Head(s)) THEN <<Head(s)>> \o DigitPrefix(Tail(s)) ELSE <<>>

RECURSIVE DecimalValue(_)
DecimalValue(ds) ==
    IF ds = <<>> THEN 0
    ELSE 10 * DecimalValue(SubSeq(ds, 1, Len(ds) - 1)) + DigitVal(ds[Len(ds)])

\* the number a string starts with (after leading white space), NaN if none
ParseNumber(s) ==
    LET ds == DigitPrefix(trimStart(s))
    IN  IF ds = <<>> THEN NaN ELSE Num(DecimalValue(ds))

\* parseInt(v): numbers here are non-negative integers, which parse to themselves
parseInt(v) ==
    CASE v[1] = "num" -> v
      [] v[1] = "str" -> ParseNumber(v[2])
      [] OTHER -> NaN

\* parseFloat(v)
parseFloat(v) ==
    CASE v[1] = "num" -> v
      [] v[1] = "str" -> ParseNumber(v[2])
      [] OTHER -> NaN

-----------------------------------------------------------------------------
(* ItemManager: the operations as functions of the store st = [items, nextId] *)

Store(its, nid) == [items |-> its, nextId |-> nid]

\* constructor
NewStore == Store(<<>>, 1)

\* addItem keeping an updatedAt the caller supplies
addItem_keepUpdatedAt(st, itemData, t1, t2) ==
    LET given == Truthy(Get(itemData, "id"))
        item == Spread(
                    Spread([id |-> IF given THEN itemData.id ELSE Num(st.nextId)],
                           itemData),
                    [createdAt |-> IF Truthy(Get(itemData, "createdAt"))
                                   THEN itemData.createdAt ELSE Iso(t1),
                     updatedAt |-> IF Truthy(Get(itemData, "updatedAt"))
                                   THEN itemData.updatedAt ELSE Iso(t2)])
    IN  [st |-> Store(MapSet(st.items, item.id, item),
                      IF given THEN st.nextId ELSE st.nextId + 1),
         ret |-> <<item>>]

\* addItem(itemData), the clock reading t1 for createdAt and t2 for updatedAt
addItem(st, itemData, t1, t2) ==
    LET given == Truthy(Get(itemData, "id"))
        item == Spread(
                    Spread([id |-> IF given THEN itemData.id ELSE Num(st.nextId)],
                           itemData),
                    [createdAt |-> IF Truthy(Get(itemData, "createdAt"))
                                   THEN itemData.createdAt ELSE Iso(t1),
                     updatedAt |-> Iso(t2)])
    IN  [st |-> Store(MapSet(st.items, item.id, item),
                      IF given THEN st.nextId ELSE st.nextId + 1),
         ret |-> <<item>>]

\* updateItem without "id: id": the id of the partial wins
updateItem_idFromPartial(st, id, itemData, t) ==
    LET existingItem == MapGet(st.items, id)
    IN  IF existingItem = <<>>
        THEN [st |-> st, ret |-> <<>>]
        ELSE LET updatedItem == Spread(Spread(existingItem[1], itemData),
                                       [updatedAt |-> Iso(t)])
             IN  [st |-> Store(MapSet(st.items, id, updatedItem), st.nextId),
                  ret |-> <<updatedItem>>]

\* updateItem without "...existingItem": the partial replaces the record
updateItem_replace(st, id, itemData, t) ==
    LET existingItem == MapGet(st.items, id)
    IN  IF existingItem = <<>>
        THEN [st |-> st, ret |-> <<>>]
        ELSE LET updatedItem == Spread(itemData, [id |-> id, updatedAt |-> Iso(t)])
             IN  [st |-> Store(MapSet(st.items, id, updatedItem), st.nextId),
                  ret |-> <<updatedItem>>]

\* updateItem without the early return: an unknown id is inserted
updateItem_upsert(st, id, itemData, t) ==
    LET existingItem == MapGet(st.items, id)
        updatedItem == Spread(Spread(IF existingItem = <<>> THEN EmptyObj
                                     ELSE existingItem[1], itemData),
                              [id |-> id, updatedAt |-> Iso(t)])
    IN  [st |-> Store(MapSet(st.items, id, updatedItem), st.nextId),
         ret |-> <<updatedItem>>]

\* updateItem(id, itemData), the clock reading t; ret is <<>> for null
updateItem(st, id, itemData, t) ==
    LET existingItem == MapGet(st.items, id)
    IN  IF existingItem = <<>>
        THEN [st |-> st, ret |-> <<>>]
        ELSE LET updatedItem == Spread(Spread(existingItem[1], itemData),
                                       [id |-> id, updatedAt |-> Iso(t)])
             IN  [st |-> Store(MapSet(st.items, id, updatedItem), st.nextId),
                  ret |-> <<updatedItem>>]

\* deleteItem returning true whatever Map.delete returned
deleteItem_alwaysTrue(st, id) ==
    [st |-> Store(MapDelete(st.items, id), st.nextId), ret |-> TRUE]

\* deleteItem(id)
deleteItem(st, id) ==
    [st |-> Store(MapDelete(st.items, id), st.nextId), ret |-> MapHas(st.items, id)]

\* getItemById(id): <<>> for null
getItemById(st, id) == MapGet(st.items, id)

\* getAllItems()
getAllItems(st) == MapValues(st.items)

\* clearAllItems without this.items.clear()
clearAllItems_keepItems(st) == Store(st.items, 1)

\* clearAllItems()
clearAllItems(st) == Store(<<>>, 1)

\* item.f?.toLowerCase().includes(searchTerm), f a string or absent
FieldIncludes(item, f, searchTerm) ==
    LET v == Get(item, f)
    IN  IsStr(v) /\ includes(toLowerCase(v[2]), searchTerm)

SearchFields == <<"kodeItem", "namaItem", "merek", "jenis", "barcode">>

\* searchItems without the test for a white-space query
searchItems_noBlankTest(st, query) ==
    IF query = <<>>
    THEN getAllItems(st)
    ELSE LET searchTerm == trim(toLowerCase(query))
         IN  SelectSeq(getAllItems(st),
                       LAMBDA item : \E i \in 1..Len(SearchFields) :
                                        FieldIncludes(item, SearchFields[i], searchTerm))

\* searchItems without query.toLowerCase()
searchItems_caseSensitive(st, query) ==
    IF query = <<>> \/ trim(query) = <<>>
    THEN getAllItems(st)
    ELSE LET searchTerm == trim(query)
         IN  SelectSeq(getAllItems(st),
                       LAMBDA item : \E i \in 1..Len(SearchFields) :
                                        FieldIncludes(item, SearchFields[i], searchTerm))

\* searchItems(query), query a string
searchItems(st, query) ==
    IF query = <<>> \/ trim(query) = <<>>
    THEN getAllItems(st)
    ELSE LET searchTerm == trim(toLowerCase(query))
         IN  SelectSeq(getAllItems(st),
                       LAMBDA item : \E i \in 1..Len(SearchFields) :
                                        FieldIncludes(item, SearchFields[i], searchTerm))

\* getLowStockItems(threshold), threshold a number; a comparison with an absent
\* stok is false
getLowStockItems(st, threshold) ==
    SelectSeq(getAllItems(st),
              LAMBDA item : LET stok == Get(item, "stok")
                            IN  IsNum(stok) /\ stok[2] <= threshold /\ stok[2] > 0)

\* getOutOfStockItems()
getOutOfStockItems(st) ==
    SelectSeq(getAllItems(st),
              LAMBDA item : LET stok == Get(item, "stok")
                            IN  IsNum(stok) /\ stok[2] <= 0)

NumericFields == {"stok", "hargaPokok", "hargaJual", "stokMin"}

\* the row after "Normalize numeric fields": a truthy value v becomes parseFloat(v) || 0
NormalizeRow(itemData) ==
    [n \in DOMAIN itemData |->
        IF n \in NumericFields /\ Truthy(itemData[n])
        THEN IF Truthy(parseFloat(itemData[n])) THEN parseFloat(itemData[n]) ELSE Num(0)
        ELSE itemData[n]]

\* getAllItems().find(item => item.kodeItem === code): <<>> when there is none
FindByCode(st, code) ==
    LET its == getAllItems(st)
        hit == {i \in 1..Len(its) : Get(its[i], "kodeItem") = code}
    IN  IF hit = {} THEN <<>> ELSE <<its[CHOOSE i \in hit : \A j \in hit : i <= j]>>

\* "Check if item exists"
ExistingFor(st, itemData) ==
    IF Truthy(Get(itemData, "id"))
    THEN getItemById(st, parseInt(itemData.id))
    ELSE FindByCode(st, Get(itemData, "kodeItem"))

ImportError(index, kind, itemData) ==
    [row |-> index, kind |-> kind, code |-> Get(itemData, "kodeItem")]

\* the try block without the return after "already exists": the row is
\* reported and then written
importRow_noReturn(acc, itemData, index, overwrite, t1, t2) ==
    LET existingItem == ExistingFor(acc.st, itemData)
        row == NormalizeRow(itemData)
        seen == IF existingItem # <<>> /\ ~overwrite
                THEN [acc EXCEPT !.errors = Append(@, ImportError(index, "exists", itemData))]
                ELSE acc
    IN  IF ~Truthy(Get(itemData, "kodeItem")) /\ ~Truthy(Get(itemData, "id"))
        THEN [acc EXCEPT !.errors = Append(@, ImportError(index, "missing", itemData))]
        ELSE IF existingItem # <<>> /\ overwrite
        THEN [seen EXCEPT !.st = updateItem(acc.st, existingItem[1].id, row, t1).st,
                          !.updated = @ + 1]
        ELSE [seen EXCEPT !.st = addItem(acc.st, row, t1, t2).st,
                          !.imported = @ + 1]

\* the try block of the forEach callback of importItems for a row that is an
\* object: row number index (from 1), acc = [st, imported, updated, errors],
\* clock readings t1 <= t2
importRow(acc, itemData, index, overwrite, t1, t2) ==
    LET existingItem == ExistingFor(acc.st, itemData)
        row == NormalizeRow(itemData)
    IN  IF ~Truthy(Get(itemData, "kodeItem")) /\ ~Truthy(Get(itemData, "id"))
        THEN [acc EXCEPT !.errors = Append(@, ImportError(index, "missing", itemData))]
        ELSE IF existingItem # <<>> /\ ~overwrite
        THEN [acc EXCEPT !.errors = Append(@, ImportError(index, "exists", itemData))]
        ELSE IF existingItem # <<>> /\ overwrite
        THEN [acc EXCEPT !.st = updateItem(acc.st, existingItem[1].id, row, t1).st,
                         !.updated = @ + 1]
        ELSE [acc EXCEPT !.st = addItem(acc.st, row, t1, t2).st,
                         !.imported = @ + 1]

\* the forEach callback without its catch: the TypeError leaves importItems
importCallback_noCatch(acc, row, index, overwrite, t1, t2) ==
    IF row = <<>>
    THEN [acc EXCEPT !.thrown = TRUE]
    ELSE importRow(acc, row[1], index, overwrite, t1, t2)

\* the forEach callback of importItems with its try / catch; row is <<>> for
\* null and <<o>> for an object o. Reading null.kodeItem throws a TypeError,
\* which the catch turns into an entry of errors; acc.thrown tells that an
\* exception left the callback
importCallback(acc, row, index, overwrite, t1, t2) ==
    IF row = <<>>
    THEN [acc EXCEPT !.errors = Append(@, ImportError(index, "thrown", EmptyObj))]
    ELSE importRow(acc, row[1], index, overwrite, t1, t2)

RECURSIVE importRows(_, _, _, _, _)
importRows(acc, itemsArray, index, overwrite, ts) ==
    IF index > Len(itemsArray) THEN acc
    ELSE importRows(importRow(acc, itemsArray[index], index, overwrite,
                              ts[index][1], ts[index][2]),
                    itemsArray, index + 1, overwrite, ts)

\* importItems(itemsArray, overwrite); ts[i] = the clock readings of row i
importItems(st, itemsArray, overwrite, ts) ==
    importRows([st |-> st, imported |-> 0, updated |-> 0, errors |-> <<>>],
               itemsArray, 1, overwrite, ts)

-----------------------------------------------------------------------------
(* JSON text: the sequence of its tokens <<kind, payload>>, separators and   *)
(* white space left out. Kinds: "[", "]", "{", "}", "key" (a property name), *)
(* "num", "str", "null", and "?" for a character no JSON text has there.     *)
(* A parsed value is a number, a string, <<"null", 0>>, <<"array", seq>> or  *)
(* <<"object", obj>>                                                         *)

Tok(kind) == <<kind, 0>>
JsonNull == <<"null", 0>>

DigitChars == <<"0", "1", "2", "3", "4", "5", "6", "7", "8", "9">>

RECURSIVE DecimalText(_)
DecimalText(n) ==
    IF n < 10 THEN <<DigitChars[n + 1]>>
    ELSE DecimalText(n \div 10) \o <<DigitChars[(n % 10) + 1]>>

\* new Date(t).toISOString(): of the text "1970-01-01T00:00:00.00tZ" the model
\* keeps the T and the milliseconds
IsoText(t) == <<"T">> \o DecimalText(t)

\* the value of a string with the characters s: a time stamp's text is the
\* time stamp
StrValue(s) ==
    IF \E t \in 0..9 : s = IsoText(t)
    THEN Iso(CHOOSE t \in 0..9 : s = IsoText(t))
    ELSE Str(s)

\* JSON.stringify of a property value: NaN is written as null
ValueToken(v) ==
    CASE v[1] = "num" -> <<"num", v[2]>>
      [] v[1] = "str" -> <<"str", v[2]>>
      [] v[1] = "iso" -> <<"str", IsoText(v[2])>>
      [] OTHER -> JsonNull

\* the names of a set of properties, one after the other
RECURSIVE KeySeq(_)
KeySeq(names) ==
    IF names = {} THEN <<>>
    ELSE LET n == CHOOSE x \in names : TRUE IN <<n>> \o KeySeq(names \ {n})

\* the members of an object: a property whose value is undefined is left out
RECURSIVE MemberTokens(_, _)
MemberTokens(obj, names) ==
    IF names = <<>> THEN <<>>
    ELSE (IF obj[Head(names)] = Undef THEN <<>>
          ELSE <<(<<"key", Head(names)>>), ValueToken(obj[Head(names)])>>)
         \o MemberTokens(obj, Tail(names))

ObjectTokens(obj) == <<Tok("{")>> \o MemberTokens(obj, KeySeq(DOMAIN obj)) \o <<Tok("}")>>

RECURSIVE ElementTokens(_)
ElementTokens(list) ==
    IF list = <<>> THEN <<>> ELSE ObjectTokens(Head(list)) \o ElementTokens(Tail(list))

\* JSON.stringify(list, null, 2), list an array of objects
stringify(list) == <<Tok("[")>> \o ElementTokens(list) \o <<Tok("]")>>

\* the parser: <<value, index after it>>, or <<>> for a SyntaxError
RECURSIVE ParseValue(_, _)
RECURSIVE ParseElements(_, _, _)
RECURSIVE ParseMembers(_, _, _)
ParseValue(text, i) ==
    IF i > Len(text) THEN <<>>
    ELSE CASE text[i][1] = "num" -> <<Num(text[i][2]), i + 1>>
           [] text[i][1] = "str" -> <<StrValue(text[i][2]), i + 1>>
           [] text[i][1] = "null" -> <<JsonNull, i + 1>>
           [] text[i][1] = "[" -> ParseElements(text, i + 1, <<>>)
           [] text[i][1] = "{" -> ParseMembers(text, i + 1, EmptyObj)
           [] OTHER -> <<>>

ParseElements(text, i, acc) ==
    IF i > Len(text) THEN <<>>
    ELSE IF text[i][1] = "]" THEN <<(<<"array", acc>>), i + 1>>
    ELSE LET r == ParseValue(text, i)
         IN  IF r = <<>> THEN <<>> ELSE ParseElements(text, r[2], Append(acc, r[1]))

ParseMembers(text, i, obj) ==
    IF i > Len(text) THEN <<>>
    ELSE IF text[i][1] = "}" THEN <<(<<"object", obj>>), i + 1>>
    ELSE IF text[i][1] # "key" THEN <<>>
    ELSE LET r == ParseValue(text, i + 1)
         IN  IF r = <<>> THEN <<>>
             ELSE ParseMembers(text, r[2],
                               Spread(obj, [n \in {text[i][2]} |-> r[1]]))

\* JSON.parse(text): <<value>>, or <<>> when it throws a SyntaxError
parse(text) ==
    LET r == ParseValue(text, 1)
    IN  IF r = <<>> \/ r[2] # Len(text) + 1 THEN <<>> ELSE <<r[1]>>

\* exportToJSON()
exportToJSON(st) == stringify(getAllItems(st))

\* an element of a parsed array as the forEach callback sees it: null, an
\* object, or a value that has none of the properties the callback reads
RowOf(v) ==
    CASE v[1] = "null" -> <<>>
      [] v[1] = "object" -> <<v[2]>>
      [] OTHER -> <<EmptyObj>>

RECURSIVE importParsed(_, _, _, _)
importParsed(acc, rows, index, ts) ==
    IF index > Len(rows) THEN acc
    ELSE importParsed(importCallback(acc, RowOf(rows[index]), index, TRUE,
                                     ts[index][1], ts[index][2]),
                      rows, index + 1, ts)

\* the value catch returns
InvalidJson(st) ==
    [st |-> st, imported |-> 0, updated |-> 0,
     errors |-> <<[row |-> 0, kind |-> "invalid", code |-> Undef]>>, thrown |-> FALSE]

\* importFromJSON without the try: the error leaves the call
importFromJSON_noTry(st, jsonString, ts) ==
    LET parsed == parse(jsonString)
    IN  IF parsed = <<>> \/ parsed[1][1] # "array"
        THEN [InvalidJson(st) EXCEPT !.errors = <<>>, !.thrown = TRUE]
        ELSE importParsed([st |-> st, imported |-> 0, updated |-> 0, errors |-> <<>>,
                           thrown |-> FALSE],
                          parsed[1][2], 1, ts)

\* importFromJSON(jsonString); ts[i] = the clock readings of row i. JSON.parse
\* throws a SyntaxError, forEach of a value that is not an array a TypeError
importFromJSON(st, jsonString, ts) ==
    LET parsed == parse(jsonString)
    IN  IF parsed = <<>> \/ parsed[1][1] # "array"
        THEN InvalidJson(st)
        ELSE importParsed([st |-> st, imported |-> 0, updated |-> 0, errors |-> <<>>,
                           thrown |-> FALSE],
                          parsed[1][2], 1, ts)

\* the number of rows forEach visits
RowCount(jsonString) ==
    LET parsed == parse(jsonString)
    IN  IF parsed = <<>> \/ parsed[1][1] # "array" THEN 0 ELSE Len(parsed[1][2])

-----------------------------------------------------------------------------
(* FilterHandler: the operations as functions of the handler               *)
(* fh = [searchQuery, filters]; filters is the object's properties in      *)
(* Object.keys order, as entries [k, v]                                    *)

Handler(q, fs) == [searchQuery |-> q, filters |-> fs]

\* constructor
NewHandler ==
    Handler(Str(<<>>),
            <<[k |-> "jenis", v |-> Str(<<>>)],
              [k |-> "satuan", v |-> Str(<<>>)],
              [k |-> "statusJual", v |-> Str(<<>>)],
              [k |-> "tipe", v |-> Str(<<>>)],
              [k |-> "systemHpp", v |-> Str(<<>>)]>>)

\* setSearchQuery(query), query a string
setSearchQuery(fh, query) == Handler(Str(trim(toLowerCase(query))), fh.filters)

\* setFilter(filterType, value)
setFilter(fh, filterType, value) ==
    Handler(fh.searchQuery, MapSet(fh.filters, filterType, value))

\* clearAllFilters()
clearAllFilters(fh) ==
    Handler(Str(<<>>), [i \in 1..Len(fh.filters) |-> [k |-> fh.filters[i].k, v |-> Str(<<>>)]])

\* clearFilter(filterType)
clearFilter(fh, filterType) ==
    IF filterType = "search" THEN Handler(Str(<<>>), fh.filters)
    ELSE IF MapHas(fh.filters, filterType)
    THEN Handler(fh.searchQuery, MapSet(fh.filters, filterType, Str(<<>>)))
    ELSE fh

\* importFilterState(filterState): filterState is <<>> for null or <<o>> for an
\* object o with an optional searchQuery and an optional object filters;
\* reading a property of null throws before anything is assigned, and the catch
\* returns false
importFilterState(fh, filterState) ==
    IF filterState = <<>>
    THEN [fh |-> fh, ret |-> FALSE]
    ELSE LET given == IF "filters" \in DOMAIN filterState[1]
                      THEN filterState[1].filters ELSE EmptyObj
         IN  [fh |-> Handler(IF "searchQuery" \in DOMAIN filterState[1]
                             THEN filterState[1].searchQuery ELSE fh.searchQuery,
                             [i \in 1..Len(fh.filters) |->
                                 IF fh.filters[i].k \in DOMAIN given
                                 THEN [k |-> fh.filters[i].k, v |-> given[fh.filters[i].k]]
                                 ELSE fh.filters[i]]),
              ret |-> TRUE]

\* exportFilterState(), the clock reading t
exportFilterState(fh, t) ==
    [searchQuery |-> fh.searchQuery,
     filters |-> [n \in {fh.filters[i].k : i \in 1..Len(fh.filters)} |->
                     MapGet(fh.filters, n)[1]],
     timestamp |-> Iso(t)]

\* a parsed JSON value as importFilterState reads it: null, an object whose
\* filters property counts when it is an object, or a value without properties
FilterStateOf(v) ==
    CASE v[1] = "null" -> <<>>
      [] v[1] = "object" ->
            <<[n \in {k \in DOMAIN v[2] : k # "filters" \/ v[2][k][1] = "object"} |->
                  IF n = "filters" THEN v[2][n][2] ELSE v[2][n]]>>
      [] OTHER -> <<EmptyObj>>

\* loadFromStorage without its try: the error leaves the call
loadFromStorage_noTry(fh, storage) ==
    IF storage.fails
    THEN [fh |-> fh, ret |-> FALSE, thrown |-> TRUE]
    ELSE IF storage.saved = <<>> \/ storage.saved[1] = <<>>
    THEN [fh |-> fh, ret |-> FALSE, thrown |-> FALSE]
    ELSE LET state == parse(storage.saved[1])
         IN  IF state = <<>>
             THEN [fh |-> fh, ret |-> FALSE, thrown |-> TRUE]
             ELSE [fh |-> importFilterState(fh, FilterStateOf(state[1])).fh,
                   ret |-> importFilterState(fh, FilterStateOf(state[1])).ret,
                   thrown |-> FALSE]

\* loadFromStorage(); storage = [fails, saved]: localStorage.getItem throws, or
\* returns saved, <<>> for null and <<text>> for a string
loadFromStorage(fh, storage) ==
    IF storage.fails
    THEN [fh |-> fh, ret |-> FALSE, thrown |-> FALSE]
    ELSE IF storage.saved = <<>> \/ storage.saved[1] = <<>>
    THEN [fh |-> fh, ret |-> FALSE, thrown |-> FALSE]
    ELSE LET state == parse(storage.saved[1])
         IN  IF state = <<>>
             THEN [fh |-> fh, ret |-> FALSE, thrown |-> FALSE]
             ELSE [fh |-> importFilterState(fh, FilterStateOf(state[1])).fh,
                   ret |-> importFilterState(fh, FilterStateOf(state[1])).ret,
                   thrown |-> FALSE]

SearchableFields ==
    <<"kodeItem", "namaItem", "merek", "jenis", "barcode", "supplier", "keterangan">>

\* applySearchFilter(items, query), query the characters of the stored query
applySearchFilter(its, query) ==
    SelectSeq(its,
              LAMBDA item : \E i \in 1..Len(SearchableFields) :
                  LET value == Get(item, SearchableFields[i])
                  IN  Truthy(value) /\ includes(toLowerCase(value[2]), query))

ExactMatchFields == {"jenis", "satuan", "statusJual", "tipe", "systemHpp"}

\* applySingleFilter comparing every field for equality
applySingleFilter_allExact(its, filterType, value) ==
    SelectSeq(its,
              LAMBDA item :
                  LET itemValue == Get(item, filterType)
                  IN  IF ~Truthy(value) THEN TRUE
                      ELSE Truthy(itemValue)
                           /\ toLowerCase(itemValue[2]) = toLowerCase(value[2]))

\* applySingleFilter(items, filterType, value), value a string
applySingleFilter(its, filterType, value) ==
    SelectSeq(its,
              LAMBDA item :
                  LET itemValue == Get(item, filterType)
                  IN  IF ~Truthy(value) THEN TRUE
                      ELSE IF filterType \in ExactMatchFields
                      THEN Truthy(itemValue)
                           /\ toLowerCase(itemValue[2]) = toLowerCase(value[2])
                      ELSE Truthy(itemValue)
                           /\ includes(toLowerCase(itemValue[2]), toLowerCase(value[2])))

\* the forEach over Object.keys(this.filters) of applyFilters, from entry i on
RECURSIVE ApplyNamedFilters(_, _, _)
ApplyNamedFilters(its, fs, i) ==
    IF i > Len(fs) THEN its
    ELSE ApplyNamedFilters(
             IF Truthy(fs[i].v) THEN applySingleFilter(its, fs[i].k, fs[i].v) ELSE its,
             fs, i + 1)

\* applyFilters(items)
applyFilters(fh, its) ==
    ApplyNamedFilters(
        IF Truthy(fh.searchQuery) THEN applySearchFilter(its, fh.searchQuery[2]) ELSE its,
        fh.filters, 1)

\* v || 0, v a number or undefined
OrZero(v) == IF Truthy(v) THEN v[2] ELSE 0

\* n <= (v || Infinity), v a number or undefined
UpTo(n, v) == ~Truthy(v) \/ n <= v[2]

\* the time of new Date(v), v a timestamp string
TimeOf(v) == v[2]

\* the "Low stock filter" stage putting the low-stock items first
LowStockStage_front(its, advancedFilters) ==
    IF "lowStock" \in DOMAIN advancedFilters /\ advancedFilters.lowStock
    THEN LET threshold == IF Truthy(Get(advancedFilters, "lowStockThreshold"))
                          THEN advancedFilters.lowStockThreshold[2] ELSE 10
         IN  SelectSeq(its, LAMBDA item : OrZero(Get(item, "stok")) <= threshold)
                \o SelectSeq(its, LAMBDA item : ~(OrZero(Get(item, "stok")) <= threshold))
    ELSE its

\* the "Low stock filter" stage of applyAdvancedFilters
LowStockStage(its, advancedFilters) ==
    IF "lowStock" \in DOMAIN advancedFilters /\ advancedFilters.lowStock
    THEN LET threshold == IF Truthy(Get(advancedFilters, "lowStockThreshold"))
                          THEN advancedFilters.lowStockThreshold[2] ELSE 10
         IN  SelectSeq(its, LAMBDA item : OrZero(Get(item, "stok")) <= threshold)
    ELSE its

\* applyAdvancedFilters(items, advancedFilters) at clock reading t; the criteria
\* are an object with numbers for the bounds and the threshold, timestamp
\* strings for the dates and booleans for lowStock and outOfStock
applyAdvancedFilters(its, advancedFilters, t) ==
    LET minPrice == Get(advancedFilters, "minPrice")
        maxPrice == Get(advancedFilters, "maxPrice")
        minStock == Get(advancedFilters, "minStock")
        maxStock == Get(advancedFilters, "maxStock")
        dateFrom == Get(advancedFilters, "dateFrom")
        dateTo == Get(advancedFilters, "dateTo")
        byPrice ==
            IF minPrice # Undef \/ maxPrice # Undef
            THEN SelectSeq(its, LAMBDA item :
                     LET price == OrZero(Get(item, "hargaJual"))
                     IN  price >= OrZero(minPrice) /\ UpTo(price, maxPrice))
            ELSE its
        byStock ==
            IF minStock # Undef \/ maxStock # Undef
            THEN SelectSeq(byPrice, LAMBDA item :
                     LET stock == OrZero(Get(item, "stok"))
                     IN  stock >= OrZero(minStock) /\ UpTo(stock, maxStock))
            ELSE byPrice
        byDate ==
            IF Truthy(dateFrom) \/ Truthy(dateTo)
            THEN SelectSeq(byStock, LAMBDA item :
                     LET itemDate == TimeOf(IF Truthy(Get(item, "createdAt"))
                                            THEN item.createdAt ELSE item.updatedAt)
                         fromDate == IF Truthy(dateFrom) THEN TimeOf(dateFrom) ELSE 0
                         toDate == IF Truthy(dateTo) THEN TimeOf(dateTo) ELSE t
                     IN  itemDate >= fromDate /\ itemDate <= toDate)
            ELSE byStock
        byLowStock == LowStockStage(byDate, advancedFilters)
    IN  IF "outOfStock" \in DOMAIN advancedFilters /\ advancedFilters.outOfStock
        THEN SelectSeq(byLowStock, LAMBDA item : OrZero(Get(item, "stok")) <= 0)
        ELSE byLowStock

StockLevelNames == {"outOfStock", "lowStock", "normalStock", "highStock"}

\* the stock tests of getStockLevels one by one, as its comments name them,
\* without the else
StockLevels_eachTest(item) ==
    LET stock == OrZero(Get(item, "stok"))
    IN  {n \in StockLevelNames :
            \/ n = "outOfStock" /\ stock <= 0
            \/ n = "lowStock" /\ stock <= 10
            \/ n = "normalStock" /\ stock > 10
            \/ n = "highStock" /\ stock > 100}

\* the counters the if / else if chain of getStockLevels and of
\* calculateStatistics increments for item
StockLevels(item) ==
    LET stock == OrZero(Get(item, "stok"))
    IN  IF stock <= 0 THEN {"outOfStock"}
        ELSE IF stock <= 10 THEN {"lowStock"}
        ELSE IF stock <= 100 THEN {"normalStock"}
        ELSE {"highStock"}

\* getStockLevels(items)
getStockLevels(its) ==
    [n \in StockLevelNames |-> Cardinality({i \in 1..Len(its) : n \in StockLevels(its[i])})]

\* ExportHandler.calculateStatistics(items): the item count and the stock counts
calculateStatistics(its) ==
    [n \in StockLevelNames \cup {"totalItems"} |->
        IF n = "totalItems" THEN Len(its)
        ELSE Cardinality({i \in 1..Len(its) : n \in StockLevels(its[i])})]

-----------------------------------------------------------------------------
(* ItemManager: the statistics *)

RECURSIVE SumValue(_, _)
SumValue(its, priceField) ==
    IF its = <<>> THEN 0
    ELSE SumValue(SubSeq(its, 1, Len(its) - 1), priceField)
         + OrZero(Get(its[Len(its)], "stok")) * OrZero(Get(its[Len(its)], priceField))

\* getTotalInventoryValue always at the selling price
getTotalInventoryValue_sellingPrice(st, useCostPrice) ==
    SumValue(getAllItems(st), "hargaJual")

\* getTotalInventoryValue(useCostPrice)
getTotalInventoryValue(st, useCostPrice) ==
    SumValue(getAllItems(st), IF useCostPrice THEN "hargaPokok" ELSE "hargaJual")

Uncategorized ==
    Str(<<"U", "n", "c", "a", "t", "e", "g", "o", "r", "i", "z", "e", "d">>)

\* Object.keys(getItemsByCategory())
CategoryKeys(st) ==
    {IF Truthy(Get(getAllItems(st)[i], "jenis")) THEN getAllItems(st)[i].jenis
     ELSE Uncategorized : i \in 1..Len(getAllItems(st))}

\* a quotient a / b, kept as the pair of a and b
Ratio(a, b) == <<"ratio", a, b>>

\* getStatistics()
getStatistics(st) ==
    LET totalItems == Len(getAllItems(st))
        totalValue == getTotalInventoryValue(st, TRUE)
    IN  [totalItems |-> totalItems,
         totalValue |-> totalValue,
         lowStockItems |-> Len(getLowStockItems(st, 10)),
         outOfStockItems |-> Len(getOutOfStockItems(st)),
         categoryCount |-> Cardinality(CategoryKeys(st)),
         averageItemValue |-> IF totalItems > 0 THEN Ratio(totalValue, totalItems)
                              ELSE Ratio(0, 1)]

-----------------------------------------------------------------------------
(* InventoryApp, the table body and the edit modal: the handlers as functions *)
(* of w = [st, fh, app, table, modal]                                         *)

\* this.itemsPerPage; 20 in the code
itemsPerPage == 2

\* the fields the constructor sets
NewApp == [filteredItems |-> <<>>, currentPage |-> 1, selectedItems |-> {}]

\* the modal element is hidden and no callback is registered; form is the id
\* the submit listener of the rendered edit form holds, timers the number of
\* closeModal timeouts that have not fired
NewModal == [hidden |-> TRUE, currentCallback |-> FALSE, form |-> <<>>, timers |-> 0]

\* Date.now() of clock reading t: a number larger than every sample id
ClockBase == 10
DateNow(t) == Num(ClockBase + t)

\* Math.ceil(a / b)
Ceil(a, b) == (a + b - 1) \div b

Min(a, b) == IF a <= b THEN a ELSE b

\* Array.prototype.slice(start, end), 0 <= start <= end
slice(s, start, end) ==
    [i \in 1..(Min(end, Len(s)) - Min(start, Len(s))) |-> s[Min(start, Len(s)) + i]]

\* getCurrentPageItems()
getCurrentPageItems(a) ==
    LET startIndex == (a.currentPage - 1) * itemsPerPage
        endIndex == startIndex + itemsPerPage
    IN  slice(a.filteredItems, startIndex, endIndex)

\* String(id)
IdText(id) == IF IsNum(id) THEN DecimalText(id[2]) ELSE id[2]

\* renderTable(items, selectedItems, ...): a row keeps the id its action
\* buttons pass on, the text of dataset.itemId and whether its checkbox is checked
renderTable(its, selectedItems) ==
    [i \in 1..Len(its) |->
        [id |-> its[i].id, itemId |-> IdText(its[i].id),
         checked |-> its[i].id \in selectedItems]]

\* applyCurrentFilters without the assignment to filteredItems
applyCurrentFilters_keepList(w) ==
    [w EXCEPT !.app.currentPage = 1]

\* applyCurrentFilters()
applyCurrentFilters(w) ==
    [w EXCEPT !.app.filteredItems = applyFilters(w.fh, getAllItems(w.st)),
              !.app.currentPage = 1]

\* updateTable()
updateTable(w) ==
    [w EXCEPT !.table = renderTable(getCurrentPageItems(w.app), w.app.selectedItems)]

\* "Parse numeric fields" of handleFormSubmit and of handleEditSubmit
parseNumericFields(formData) ==
    [n \in DOMAIN formData |->
        IF n \in {"stok", "hargaPokok", "hargaJual", "stokMin"} /\ Truthy(formData[n])
        THEN IF Truthy(parseFloat(formData[n])) THEN parseFloat(formData[n]) ELSE Num(0)
        ELSE formData[n]]

\* handleFormSubmit(e), the form holding formData, the clock reading t
handleFormSubmit(w, formData, t) ==
    LET itemData == Spread(parseNumericFields(formData),
                           [id |-> DateNow(t), createdAt |-> Iso(t), updatedAt |-> Iso(t)])
    IN  updateTable(applyCurrentFilters([w EXCEPT !.st = addItem(w.st, itemData, t, t).st]))

\* the ids parseInt reads from the checkboxes of the table body
RowIds(rows) == {parseInt(Str(rows[i].itemId)) : i \in 1..Len(rows)}

\* handleSelectAll(e), e.target.checked = isChecked
handleSelectAll(w, isChecked) ==
    [w EXCEPT !.table = [i \in 1..Len(w.table) |-> [w.table[i] EXCEPT !.checked = isChecked]],
              !.app.selectedItems = IF isChecked THEN @ \cup RowIds(w.table)
                                    ELSE @ \ RowIds(w.table)]

\* handleItemSelection(e), e.target the checkbox of row i
handleItemSelection(w, i) ==
    LET itemId == parseInt(Str(w.table[i].itemId))
    IN  [w EXCEPT !.app.selectedItems = IF w.table[i].checked THEN @ \cup {itemId}
                                        ELSE @ \ {itemId}]

\* the selection callback updateTable hands to renderTable,
\* (itemId) => this.handleItemSelection.bind(this): it returns the bound
\* handler and does not call it
onSelectionChange(w, i) == w

\* the user ticks or unticks the checkbox of row i: the change listener runs
changeCheckbox(w, i) ==
    onSelectionChange([w EXCEPT !.table[i].checked = ~@], i)

RECURSIVE deleteEach(_, _)
deleteEach(st, ids) ==
    IF ids = {} THEN st
    ELSE LET id == CHOOSE x \in ids : TRUE
         IN  deleteEach(deleteItem(st, id).st, ids \ {id})

\* handleDeleteSelected(), confirmed = what confirm() returns
handleDeleteSelected(w, confirmed) ==
    IF w.app.selectedItems = {} \/ ~confirmed THEN w
    ELSE updateTable(applyCurrentFilters(
             [w EXCEPT !.st = deleteEach(w.st, w.app.selectedItems),
                       !.app.selectedItems = {}]))

\* handleSearch(query)
handleSearch(w, query) ==
    updateTable(applyCurrentFilters([w EXCEPT !.fh = setSearchQuery(w.fh, query)]))

\* handleFilter(filterType, value)
handleFilter(w, filterType, value) ==
    updateTable(applyCurrentFilters([w EXCEPT !.fh = setFilter(w.fh, filterType, value)]))

\* previousPage()
previousPage(w) ==
    IF w.app.currentPage > 1
    THEN updateTable([w EXCEPT !.app.currentPage = @ - 1])
    ELSE w

\* nextPage without the test against totalPages
nextPage_noTest(w) ==
    updateTable([w EXCEPT !.app.currentPage = @ + 1])

\* nextPage()
nextPage(w) ==
    LET totalPages == Ceil(Len(w.app.filteredItems), itemsPerPage)
    IN  IF w.app.currentPage < totalPages
        THEN updateTable([w EXCEPT !.app.currentPage = @ + 1])
        ELSE w

\* handleDeleteSingle(itemId)
handleDeleteSingle(w, itemId, confirmed) ==
    IF confirmed
    THEN updateTable(applyCurrentFilters(
             [w EXCEPT !.st = deleteItem(w.st, itemId).st,
                       !.app.selectedItems = @ \ {itemId}]))
    ELSE w

\* ModalHandler.showModal(): the part that runs at once
showModal(w) == [w EXCEPT !.modal.hidden = FALSE]

\* ModalHandler.openEditModal(item, callback), callback that of
\* InventoryApp.openEditModal
openEditModal(w, item) ==
    showModal([w EXCEPT !.modal.currentCallback = TRUE, !.modal.form = <<item.id>>])

\* ModalHandler.closeModal(): the part that runs at once sets a timeout
closeModal(w) == [w EXCEPT !.modal.timers = @ + 1]

\* the callback closeModal hands to setTimeout, 300 ms later
closeTimeout(w) ==
    [w EXCEPT !.modal.hidden = TRUE, !.modal.currentCallback = FALSE, !.modal.timers = @ - 1]

\* handleTableAction(itemId, action)
handleTableAction(w, itemId, action, confirmed) ==
    LET item == getItemById(w.st, itemId)
    IN  IF item = <<>> THEN w
        ELSE IF action = "edit" THEN openEditModal(w, item[1])
        ELSE IF action = "delete" THEN handleDeleteSingle(w, itemId, confirmed)
        ELSE w

\* the callback of InventoryApp.openEditModal
editCallback(w, updatedItem, t) ==
    updateTable(applyCurrentFilters(
        [w EXCEPT !.st = updateItem(w.st, updatedItem.id, updatedItem, t).st]))

\* value?.trim() is a string with a character
Filled(v) == IsStr(v) /\ trim(v[2]) # <<>>

\* ModalHandler.handleEditSubmit(e, itemId), the form holding formData
handleEditSubmit(w, formData, itemId, t) ==
    LET updatedItem == Spread(parseNumericFields(Spread([id |-> itemId], formData)),
                              [updatedAt |-> Iso(t)])
    IN  IF ~Filled(Get(updatedItem, "kodeItem")) \/ ~Filled(Get(updatedItem, "namaItem"))
        THEN w
        ELSE closeModal(IF w.modal.currentCallback THEN editCallback(w, updatedItem, t)
                        ELSE w)

-----------------------------------------------------------------------------
(* Inputs *)

\* ids handed to updateItem, deleteItem and getItemById
IdPool == {Num(1), Num(2), Str(<<"1">>)}

\* a timestamp string of the caller's: the epoch
GivenTime == Iso(0)

\* records handed to addItem
AddPool ==
    { [kodeItem |-> Str(<<"a">>), namaItem |-> Str(<<"A", "b">>)],
      [id |-> Num(1), kodeItem |-> Str(<<"b">>), createdAt |-> GivenTime,
       updatedAt |-> GivenTime],
      [id |-> Num(2), kodeItem |-> Str(<<"a">>)] }

\* partial records handed to updateItem
UpdatePool ==
    { [id |-> Num(2), kodeItem |-> Str(<<"b">>)],
      [createdAt |-> GivenTime, updatedAt |-> GivenTime] }

\* rows handed to importItems
RowPool ==
    { [kodeItem |-> Str(<<"a">>)],
      [id |-> Str(<<"1">>), kodeItem |-> Str(<<"b">>), createdAt |-> GivenTime],
      [namaItem |-> Str(<<"A", "b">>)] }

\* arrays handed to importItems: no row, one row, two rows
BatchPool ==
    {<<>>} \cup {<<r>> : r \in RowPool} \cup {<<r, q>> : r \in RowPool, q \in RowPool}

\* rows of the arrays the import specification hands to importItems: null, a
\* row with neither code nor id, and rows with a code, an id or both
ImportRowPool ==
    { <<>>,
      <<[namaItem |-> Str(<<"A", "b">>)]>>,
      <<[kodeItem |-> Str(<<"a">>)]>>,
      <<[id |-> Num(1), kodeItem |-> Str(<<"b">>)]>>,
      <<[id |-> Num(2), kodeItem |-> Str(<<"a">>)]>> }

\* the arrays: no row, one row, two rows
ImportBatchPool ==
    {<<>>} \cup {<<r>> : r \in ImportRowPool}
           \cup {<<r, q>> : r \in ImportRowPool, q \in ImportRowPool}

\* rows with numeric fields as a file gives them: strings of digits, other
\* strings, the empty string, numbers
NumericRowPool ==
    { <<[kodeItem |-> Str(<<"a">>), stok |-> Str(<<"3", "0">>), hargaJual |-> Str(<<"b">>)]>>,
      <<[kodeItem |-> Str(<<"b">>), stok |-> Str(<<>>), stokMin |-> Num(2)]>>,
      <<[id |-> Num(1), kodeItem |-> Str(<<"a">>), hargaPokok |-> Str(<<"0">>)]>> }

NumericBatchPool ==
    {<<r>> : r \in NumericRowPool} \cup {<<r, q>> : r \in NumericRowPool, q \in NumericRowPool}

\* records handed to addItem before an export
JsonAddPool ==
    { [kodeItem |-> Str(<<"a">>), namaItem |-> Str(<<"A", "b">>), stok |-> Num(2),
       hargaPokok |-> Num(3)],
      [id |-> Num(2), kodeItem |-> Str(<<"b">>), createdAt |-> GivenTime],
      [kodeItem |-> Str(<<"a">>), stok |-> Str(<<"2">>)],
      [id |-> Num(0), namaItem |-> Str(<<"b">>)] }

\* partial records handed to updateItem before an export
JsonUpdatePool == { [namaItem |-> Str(<<"b">>), stok |-> Num(0)] }

\* texts handed to importFromJSON: texts JSON.parse rejects, texts of values
\* that are not arrays, texts of arrays
JsonPool ==
    { <<>>,
      <<Tok("?")>>,
      <<Tok("[")>>,
      <<Tok("["), Tok("]"), Tok("]")>>,
      <<Tok("["), Tok("{"), <<"key", "id">>, Tok("}"), Tok("]")>>,
      <<Tok("{"), <<"num", 1>>, Tok("}")>>,
      <<(<<"num", 1>>)>>,
      <<(<<"str", <<"a">> >>)>>,
      <<JsonNull>>,
      <<Tok("{"), Tok("}")>>,
      <<Tok("{"), <<"key", "id">>, <<"num", 1>>, Tok("}")>>,
      <<Tok("["), Tok("]")>>,
      <<Tok("["), JsonNull, <<"num", 1>>, Tok("]")>>,
      <<Tok("["), Tok("{"), <<"key", "kodeItem">>, <<"str", <<"a">> >>, Tok("}"), Tok("]")>> }

\* queries handed to searchItems and setSearchQuery
Queries ==
    { <<>>, <<" ">>, <<" ", " ">>, <<"a">>, <<"B">>, <<" ", "A">>, <<"a", "B">>, <<"b", " ">> }

\* filter names and values handed to setFilter and clearFilter
FilterNames == {"jenis", "merek"}
FilterValues == {Str(<<>>), Str(<<"A">>)}

\* filter states handed to importFilterState: what JSON.parse made of the
\* saved text
StatePool ==
    { <<>>,
      <<[searchQuery |-> Str(<<"A">>)]>>,
      <<[filters |-> [jenis |-> Str(<<"a">>), merek |-> Str(<<"A">>)]]>>,
      <<[searchQuery |-> Str(<<>>), filters |-> [jenis |-> Str(<<>>)]]>> }

\* what localStorage holds when loadFromStorage reads it
StoragePool ==
    { [fails |-> TRUE, saved |-> <<>>],
      [fails |-> FALSE, saved |-> <<>>],
      [fails |-> FALSE, saved |-> << <<>> >>],
      [fails |-> FALSE, saved |-> << <<Tok("{")>> >>],
      [fails |-> FALSE, saved |-> << <<JsonNull>> >>],
      [fails |-> FALSE, saved |-> << <<(<<"num", 1>>)>> >>],
      [fails |-> FALSE,
       saved |-> << <<Tok("{"), <<"key", "searchQuery">>, <<"str", <<"A">> >>,
                               <<"key", "filters">>, JsonNull, Tok("}")>> >>],
      [fails |-> FALSE,
       saved |-> << <<Tok("{"), <<"key", "filters">>,
                                 Tok("{"), <<"key", "jenis">>, <<"str", <<"a">> >>, Tok("}"),
                               Tok("}")>> >>] }

\* records the stores of the filter specification are filled with
SearchPool ==
    { [id |-> Num(4), kodeItem |-> Str(<<"A", "b">>), namaItem |-> Str(<<"b", " ", "a">>),
       jenis |-> Str(<<"A">>), merek |-> Str(<<>>), supplier |-> Str(<<"b">>)],
      [id |-> Num(2), kodeItem |-> Str(<<"b">>), merek |-> Str(<<"a", "B">>),
       jenis |-> Str(<<"a">>)],
      [id |-> Num(3), kodeItem |-> Str(<<"B">>), barcode |-> Str(<<"a", "b">>),
       jenis |-> Str(<<"b">>), keterangan |-> Str(<<"a">>)],
      [supplier |-> Str(<<"a">>), keterangan |-> Str(<<"A">>)] }

\* records the stores of the stock specification are filled with: stok absent
\* and on both sides of 0, 10 and 100
StockPool ==
    { [id |-> Num(1), kodeItem |-> Str(<<"a">>), jenis |-> Str(<<"A">>), hargaJual |-> Num(1),
       hargaPokok |-> Num(2)],
      [id |-> Num(2), kodeItem |-> Str(<<"b">>), jenis |-> Str(<<"a">>), stok |-> Num(0),
       hargaJual |-> Num(0)],
      [id |-> Num(3), jenis |-> Str(<<"b">>), stok |-> Num(10), hargaJual |-> Num(2),
       hargaPokok |-> Num(3)],
      [id |-> Num(4), stok |-> Num(11), hargaJual |-> Num(1)],
      [id |-> Num(5), jenis |-> Str(<<"A">>), stok |-> Num(100), hargaPokok |-> Num(0)],
      [id |-> Num(6), stok |-> Num(101), hargaJual |-> Num(2), hargaPokok |-> Num(1),
       createdAt |-> Iso(1)] }

\* bounds handed to applyAdvancedFilters, undefined for an absent one
PriceBounds == {Undef, Num(0), Num(1), Num(2)}
StockBounds == {Undef, Num(0), Num(10), Num(11)}

\* the criteria object with the bounds that are not undefined
Criteria(minPrice, maxPrice, minStock, maxStock) ==
    LET all == [minPrice |-> minPrice, maxPrice |-> maxPrice,
                minStock |-> minStock, maxStock |-> maxStock]
    IN  [n \in {k \in DOMAIN all : all[k] # Undef} |-> all[n]]

\* criteria handed to applyAdvancedFilters
AdvancedPool ==
    {Criteria(a, b, Undef, Undef) : a, b \in PriceBounds}
        \cup {Criteria(Undef, Undef, c, d) : c, d \in StockBounds}
        \cup { Criteria(Num(1), Undef, Undef, Num(10)),
               Criteria(Undef, Num(0), Num(0), Undef),
               Criteria(Num(0), Num(2), Num(10), Num(11)),
               [lowStock |-> TRUE],
               [outOfStock |-> TRUE],
               [lowStock |-> TRUE, outOfStock |-> TRUE],
               [lowStock |-> TRUE, lowStockThreshold |-> Num(11)],
               [lowStock |-> FALSE, minStock |-> Num(10)],
               [dateFrom |-> Iso(1)],
               [dateTo |-> Iso(0), maxPrice |-> Num(1)] }

\* the store after addItem of each record of seq, in order
RECURSIVE StoreAfter(_)
StoreAfter(seq) ==
    IF seq = <<>> THEN NewStore
    ELSE addItem(StoreAfter(SubSeq(seq, 1, Len(seq) - 1)), seq[Len(seq)], 0, 0).st

\* the stores holding up to MaxItems different records of SearchPool
SampleStores ==
    {StoreAfter(seq) :
        seq \in {q \in UNION {[1..n -> SearchPool] : n \in 0..MaxItems} :
                    \A i, j \in 1..Len(q) : i # j => q[i] # q[j]}}

\* the stores holding up to MaxItems different records of StockPool
StockStores ==
    {StoreAfter(seq) :
        seq \in {q \in UNION {[1..n -> StockPool] : n \in 0..MaxItems} :
                    \A i, j \in 1..Len(q) : i # j => q[i] # q[j]}}

\* the sample items of loadInitialData
SampleItems ==
    << [id |-> Num(1), kodeItem |-> Str(<<"a">>), namaItem |-> Str(<<"A", "b">>),
        jenis |-> Str(<<"A">>), satuan |-> Str(<<"B">>), stok |-> Num(19)],
       [id |-> Num(2), kodeItem |-> Str(<<"b">>), namaItem |-> Str(<<"B">>),
        jenis |-> Str(<<"a">>), satuan |-> Str(<<"B">>), stok |-> Num(25)],
       [id |-> Num(3), kodeItem |-> Str(<<"A", "b">>), namaItem |-> Str(<<"a", " ", "b">>),
        jenis |-> Str(<<"b">>), satuan |-> Str(<<"B">>), stok |-> Num(45)] >>

\* what the entry form holds at a submit
FormPool ==
    { [kodeItem |-> Str(<<"B">>), namaItem |-> Str(<<"b">>), jenis |-> Str(<<"A">>),
       stok |-> Str(<<"3">>)] }

\* what the edit form holds at a submit: a changed jenis, a blank name
EditPool ==
    { [kodeItem |-> Str(<<"a">>), namaItem |-> Str(<<"A">>), jenis |-> Str(<<"b">>),
       stok |-> Str(<<"2">>)],
      [kodeItem |-> Str(<<"a">>), namaItem |-> Str(<<" ">>), jenis |-> Str(<<"A">>)] }

\* what the search box and the jenis select hold at an event
AppQueries == { <<>>, <<"A">> }
AppFilterValues == { Str(<<>>), Str(<<"A">>) }

\* a call lasts less than two ticks of the clock: each new Date() in it reads
\* the time the call started at or the next one, never earlier than the one before
Readings == {t \in {now, now + 1} : t <= MaxClock}

\* the j-th reading of a call in which the clock ticks after the k-th
Reading(j, k) == IF j <= k \/ now = MaxClock THEN now ELSE now + 1

\* the readings of n consecutive pairs of new Date()
TimeSeqs(n) ==
    {[i \in 1..n |-> <<Reading(2 * i - 1, k), Reading(2 * i, k)>>] : k \in 0..(2 * n)}

-----------------------------------------------------------------------------
(* State machine of the item store; the filter handler stays as constructed *)

NoArg ==
    [id |-> Undef, data |-> EmptyObj, overwrite |-> FALSE,
     query |-> <<>>, name |-> "", value |-> Undef, state |-> <<>>,
     criteria |-> EmptyObj, rows |-> <<>>, index |-> 0, again |-> FALSE, before |-> <<>>,
     text |-> <<>>, storage |-> <<>>]

NoRet ==
    [item |-> <<>>, ok |-> FALSE, list |-> <<>>, counts |-> <<>>, summary |-> <<>>,
     threw |-> FALSE, handler |-> <<>>]

\* no importItems call is in progress
NoCall == <<>>

CurStore == Store(items, nextId)
CurHandler == Handler(searchQuery, filters)

Init ==
    /\ items = NewStore.items
    /\ nextId = NewStore.nextId
    /\ now = 0
    /\ searchQuery = NewHandler.searchQuery
    /\ filters = NewHandler.filters
    /\ importCall = NoCall
    /\ app = NewApp
    /\ table = <<>>
    /\ modal = NewModal
    /\ lastOp = "new"
    /\ lastArg = NoArg
    /\ lastRet = NoRet

Fits(st) == Len(st.items) <= MaxItems /\ st.nextId <= MaxNextId

AddItem(itemData) ==
    \E ts \in TimeSeqs(1) :
        LET r == addItem(CurStore, itemData, ts[1][1], ts[1][2])
        IN  /\ Fits(r.st)
            /\ items' = r.st.items
            /\ nextId' = r.st.nextId
            /\ now' = ts[1][2]
            /\ lastOp' = "addItem"
            /\ lastArg' = [NoArg EXCEPT !.data = itemData]
            /\ lastRet' = [NoRet EXCEPT !.item = r.ret]
            /\ UNCHANGED <<filterVars, importCall, uiVars>>

UpdateItem(id, itemData) ==
    \E t \in Readings :
        LET r == updateItem(CurStore, id, itemData, t)
        IN  /\ items' = r.st.items
            /\ nextId' = r.st.nextId
            /\ now' = IF r.ret = <<>> THEN now ELSE t
            /\ lastOp' = "updateItem"
            /\ lastArg' = [NoArg EXCEPT !.id = id, !.data = itemData]
            /\ lastRet' = [NoRet EXCEPT !.item = r.ret]
            /\ UNCHANGED <<filterVars, importCall, uiVars>>

DeleteItem(id) ==
    LET r == deleteItem(CurStore, id)
    IN  /\ items' = r.st.items
        /\ nextId' = r.st.nextId
        /\ lastOp' = "deleteItem"
        /\ lastArg' = [NoArg EXCEPT !.id = id]
        /\ lastRet' = [NoRet EXCEPT !.ok = r.ret]
        /\ UNCHANGED <<now, filterVars, importCall, uiVars>>

\* the history keeps the overwrite flag of the call, not its rows and summary
ImportItems(itemsArray, overwrite) ==
    \E ts \in TimeSeqs(Len(itemsArray)) :
        LET r == importItems(CurStore, itemsArray, overwrite, ts)
        IN  /\ Fits(r.st)
            /\ items' = r.st.items
            /\ nextId' = r.st.nextId
            /\ now' = IF ts = <<>> THEN now ELSE ts[Len(ts)][2]
            /\ lastOp' = "importItems"
            /\ lastArg' = [NoArg EXCEPT !.overwrite = overwrite]
            /\ lastRet' = NoRet
            /\ UNCHANGED <<filterVars, importCall, uiVars>>

ClearAllItems ==
    /\ items' = clearAllItems(CurStore).items
    /\ nextId' = clearAllItems(CurStore).nextId
    /\ lastOp' = "clearAllItems"
    /\ lastArg' = NoArg
    /\ lastRet' = NoRet
    /\ UNCHANGED <<now, filterVars, importCall, uiVars>>

Next ==
    \/ \E itemData \in AddPool : AddItem(itemData)
    \/ \E id \in IdPool, itemData \in UpdatePool : UpdateItem(id, itemData)
    \/ \E id \in IdPool : DeleteItem(id)
    \/ \E itemsArray \in BatchPool, overwrite \in BOOLEAN : ImportItems(itemsArray, overwrite)
    \/ ClearAllItems

Spec == Init /\ [][Next]_vars

-----------------------------------------------------------------------------
(* State machine of the filter handler over a store that does not change *)

InitFilter ==
    /\ \E st \in SampleStores : items = st.items /\ nextId = st.nextId
    /\ now = 0
    /\ searchQuery = NewHandler.searchQuery
    /\ filters = NewHandler.filters
    /\ importCall = NoCall
    /\ app = NewApp
    /\ table = <<>>
    /\ modal = NewModal
    /\ lastOp = "new"
    /\ lastArg = NoArg
    /\ lastRet = NoRet

SetSearchQuery(query) ==
    /\ searchQuery' = setSearchQuery(CurHandler, query).searchQuery
    /\ filters' = setSearchQuery(CurHandler, query).filters
    /\ lastOp' = "setSearchQuery"
    /\ lastArg' = [NoArg EXCEPT !.query = query]
    /\ lastRet' = NoRet
    /\ UNCHANGED <<storeVars, importCall, uiVars>>

SetFilter(filterType, value) ==
    /\ searchQuery' = setFilter(CurHandler, filterType, value).searchQuery
    /\ filters' = setFilter(CurHandler, filterType, value).filters
    /\ lastOp' = "setFilter"
    /\ lastArg' = [NoArg EXCEPT !.name = filterType, !.value = value]
    /\ lastRet' = NoRet
    /\ UNCHANGED <<storeVars, importCall, uiVars>>

ClearAllFilters ==
    /\ searchQuery' = clearAllFilters(CurHandler).searchQuery
    /\ filters' = clearAllFilters(CurHandler).filters
    /\ lastOp' = "clearAllFilters"
    /\ lastArg' = NoArg
    /\ lastRet' = NoRet
    /\ UNCHANGED <<storeVars, importCall, uiVars>>

ClearFilter(filterType) ==
    /\ searchQuery' = clearFilter(CurHandler, filterType).searchQuery
    /\ filters' = clearFilter(CurHandler, filterType).filters
    /\ lastOp' = "clearFilter"
    /\ lastArg' = [NoArg EXCEPT !.name = filterType]
    /\ lastRet' = NoRet
    /\ UNCHANGED <<storeVars, importCall, uiVars>>

ImportFilterState(filterState) ==
    /\ searchQuery' = importFilterState(CurHandler, filterState).fh.searchQuery
    /\ filters' = importFilterState(CurHandler, filterState).fh.filters
    /\ lastOp' = "importFilterState"
    /\ lastArg' = [NoArg EXCEPT !.state = filterState]
    /\ lastRet' = [NoRet EXCEPT !.ok = importFilterState(CurHandler, filterState).ret]
    /\ UNCHANGED <<storeVars, importCall, uiVars>>

\* loadFromStorage()
LoadFromStorage(storage) ==
    /\ searchQuery' = loadFromStorage(CurHandler, storage).fh.searchQuery
    /\ filters' = loadFromStorage(CurHandler, storage).fh.filters
    /\ lastOp' = "loadFromStorage"
    /\ lastArg' = [NoArg EXCEPT !.storage = <<storage>>]
    /\ lastRet' = [NoRet EXCEPT !.ok = loadFromStorage(CurHandler, storage).ret,
                                !.threw = loadFromStorage(CurHandler, storage).thrown]
    /\ UNCHANGED <<storeVars, importCall, uiVars>>

\* new FilterHandler().importFilterState(filterHandler.exportFilterState()):
\* the history keeps the fresh handler
RestoreFresh ==
    \E t \in Readings :
        LET r == importFilterState(NewHandler, <<exportFilterState(CurHandler, t)>>)
        IN  /\ lastOp' = "restoreFresh"
            /\ lastArg' = NoArg
            /\ lastRet' = [NoRet EXCEPT !.ok = r.ret, !.handler = <<r.fh>>]
            /\ UNCHANGED <<storeVars, filterVars, importCall, uiVars>>

\* itemManager.searchItems(query)
SearchItems(query) ==
    /\ lastOp' = "searchItems"
    /\ lastArg' = [NoArg EXCEPT !.query = query]
    /\ lastRet' = [NoRet EXCEPT !.list = searchItems(CurStore, query)]
    /\ UNCHANGED <<storeVars, filterVars, importCall, uiVars>>

\* filterHandler.applyFilters(itemManager.getAllItems())
ApplyFilters ==
    /\ lastOp' = "applyFilters"
    /\ lastArg' = NoArg
    /\ lastRet' = [NoRet EXCEPT !.list = applyFilters(CurHandler, getAllItems(CurStore))]
    /\ UNCHANGED <<storeVars, filterVars, importCall, uiVars>>

NextFilter ==
    \/ \E query \in Queries : SetSearchQuery(query)
    \/ \E filterType \in FilterNames, value \in FilterValues : SetFilter(filterType, value)
    \/ ClearAllFilters
    \/ \E filterType \in FilterNames \cup {"search"} : ClearFilter(filterType)
    \/ \E filterState \in StatePool : ImportFilterState(filterState)
    \/ \E storage \in StoragePool : LoadFromStorage(storage)
    \/ RestoreFresh
    \/ \E query \in Queries : SearchItems(query)
    \/ ApplyFilters

SpecFilter == InitFilter /\ [][NextFilter]_vars

-----------------------------------------------------------------------------
(* State machine of importItems, one step for each row. forEach runs to its  *)
(* end before any other handler, so no other call starts while importCall    *)
(* holds a call                                                              *)

\* the results object of importItems
NewResults == [imported |-> 0, updated |-> 0, errors |-> <<>>]

\* the store and the results of the call in progress, as importCallback takes them
CallAcc ==
    [st |-> CurStore, imported |-> importCall[1].results.imported,
     updated |-> importCall[1].results.updated, errors |-> importCall[1].results.errors,
     thrown |-> FALSE]

FitsImport(st) == Len(st.items) <= MaxItems /\ st.nextId <= MaxImportNextId

\* importItems(itemsArray, overwrite) is called; the history keeps the items at
\* the call and whether the call repeats the call before it, both overwriting
ImportBegin(itemsArray, overwrite) ==
    /\ importCall = NoCall
    /\ FitsImport(importItems(CurStore,
                              [i \in 1..Len(itemsArray) |->
                                  IF itemsArray[i] = <<>> THEN EmptyObj ELSE itemsArray[i][1]],
                              overwrite,
                              [i \in 1..Len(itemsArray) |-> <<now, now>>]).st)
    /\ importCall' = <<[itemsArray |-> itemsArray, overwrite |-> overwrite, index |-> 1,
                        results |-> NewResults]>>
    /\ lastOp' = "importBegin"
    /\ lastArg' = [NoArg EXCEPT !.rows = itemsArray, !.overwrite = overwrite,
                                !.before = items,
                                !.again = /\ lastOp = "importItems"
                                          /\ ~lastRet.threw
                                          /\ lastArg.rows = itemsArray
                                          /\ lastArg.overwrite /\ overwrite]
    /\ lastRet' = NoRet
    /\ UNCHANGED <<storeVars, filterVars, uiVars>>

\* the forEach callback runs for the next row
ImportRow ==
    /\ importCall # NoCall
    /\ importCall[1].index <= Len(importCall[1].itemsArray)
    /\ \E ts \in TimeSeqs(1) :
          LET call == importCall[1]
              acc == importCallback(CallAcc, call.itemsArray[call.index], call.index,
                                    call.overwrite, ts[1][1], ts[1][2])
          IN  /\ items' = acc.st.items
              /\ nextId' = acc.st.nextId
              /\ now' = IF acc.imported > call.results.imported THEN ts[1][2]
                        ELSE IF acc.updated > call.results.updated THEN ts[1][1]
                        ELSE now
              /\ lastArg' = [lastArg EXCEPT !.index = call.index]
              /\ IF acc.thrown
                 THEN /\ importCall' = NoCall
                      /\ lastOp' = "importItems"
                      /\ lastRet' = [NoRet EXCEPT !.threw = TRUE]
                 ELSE /\ importCall' = <<[call EXCEPT
                                            !.index = @ + 1,
                                            !.results = [imported |-> acc.imported,
                                                         updated |-> acc.updated,
                                                         errors |-> acc.errors]]>>
                      /\ lastOp' = "importRow"
                      /\ lastRet' = NoRet
    /\ UNCHANGED <<filterVars, uiVars>>

\* forEach is through: importItems returns results
ImportEnd ==
    /\ importCall # NoCall
    /\ importCall[1].index > Len(importCall[1].itemsArray)
    /\ importCall' = NoCall
    /\ lastOp' = "importItems"
    /\ lastArg' = [lastArg EXCEPT !.index = 0]
    /\ lastRet' = [NoRet EXCEPT !.summary = <<importCall[1].results>>]
    /\ UNCHANGED <<storeVars, filterVars, uiVars>>

NextImport ==
    \/ \E itemsArray \in ImportBatchPool, overwrite \in BOOLEAN :
          ImportBegin(itemsArray, overwrite)
    \/ ImportRow
    \/ ImportEnd

SpecImport == Init /\ [][NextImport]_vars

\* importItems over rows with numeric fields
NextNumeric ==
    \/ \E itemsArray \in NumericBatchPool, overwrite \in BOOLEAN :
          ImportBegin(itemsArray, overwrite)
    \/ ImportRow
    \/ ImportEnd

SpecNumeric == Init /\ [][NextNumeric]_vars

-----------------------------------------------------------------------------
(* State machine of the JSON export and import *)

\* importFromJSON(jsonString)
ImportFromJSON(jsonString) ==
    \E ts \in TimeSeqs(RowCount(jsonString)) :
        LET r == importFromJSON(CurStore, jsonString, ts)
        IN  /\ Fits(r.st)
            /\ items' = r.st.items
            /\ nextId' = r.st.nextId
            /\ now' = IF r.imported + r.updated = 0 THEN now ELSE ts[Len(ts)][2]
            /\ lastOp' = "importFromJSON"
            /\ lastArg' = [NoArg EXCEPT !.text = jsonString, !.before = items]
            /\ lastRet' = [NoRet EXCEPT
                              !.summary = <<[imported |-> r.imported, updated |-> r.updated,
                                             errors |-> r.errors]>>,
                              !.threw = r.thrown]
            /\ UNCHANGED <<filterVars, importCall, uiVars>>

\* const exported = exportToJSON(); clearAllItems(); importFromJSON(exported)
ExportClearImport ==
    \E ts \in TimeSeqs(Len(items)) :
        LET exported == exportToJSON(CurStore)
            r == importFromJSON(clearAllItems(CurStore), exported, ts)
        IN  /\ items # <<>>
            /\ items' = r.st.items
            /\ nextId' = r.st.nextId
            /\ now' = IF r.imported + r.updated = 0 THEN now ELSE ts[Len(ts)][2]
            /\ lastOp' = "exportClearImport"
            /\ lastArg' = [NoArg EXCEPT !.text = exported, !.before = items]
            /\ lastRet' = [NoRet EXCEPT
                              !.summary = <<[imported |-> r.imported, updated |-> r.updated,
                                             errors |-> r.errors]>>,
                              !.threw = r.thrown]
            /\ UNCHANGED <<filterVars, importCall, uiVars>>

NextJson ==
    \/ \E itemData \in JsonAddPool : AddItem(itemData)
    \/ \E id \in IdPool, itemData \in JsonUpdatePool : UpdateItem(id, itemData)
    \/ \E id \in IdPool : DeleteItem(id)
    \/ ExportClearImport

SpecJson == Init /\ [][NextJson]_vars

\* importFromJSON of any text into a store other calls fill and empty
NextParse ==
    \/ \E itemData \in AddPool : AddItem(itemData)
    \/ \E jsonString \in JsonPool : ImportFromJSON(jsonString)
    \/ ClearAllItems

SpecParse == Init /\ [][NextParse]_vars

-----------------------------------------------------------------------------
(* State machine of the page: one action for each event handler and one for   *)
(* the timeout of closeModal                                                  *)

CurWorld ==
    [st |-> CurStore, fh |-> CurHandler, app |-> app, table |-> table, modal |-> modal]

Becomes(w) ==
    /\ items' = w.st.items
    /\ nextId' = w.st.nextId
    /\ searchQuery' = w.fh.searchQuery
    /\ filters' = w.fh.filters
    /\ app' = w.app
    /\ table' = w.table
    /\ modal' = w.modal

\* new InventoryApp(): loadInitialData(), then updateTable(). The page was
\* loaded at clock reading 0; the events come when the clock reads MaxClock
InitApp ==
    /\ now = MaxClock
    /\ importCall = NoCall
    /\ lastOp = "new"
    /\ lastArg = NoArg
    /\ lastRet = NoRet
    /\ LET st == StoreAfter(SampleItems)
           w == updateTable([st |-> st, fh |-> NewHandler,
                             app |-> [NewApp EXCEPT !.filteredItems = getAllItems(st)],
                             table |-> <<>>, modal |-> NewModal])
       IN  /\ items = w.st.items
           /\ nextId = w.st.nextId
           /\ searchQuery = w.fh.searchQuery
           /\ filters = w.fh.filters
           /\ app = w.app
           /\ table = w.table
           /\ modal = w.modal

\* submit of the entry form
FormSubmit(formData) ==
    \E t \in Readings :
        /\ Len(handleFormSubmit(CurWorld, formData, t).st.items) <= MaxItems
        /\ Becomes(handleFormSubmit(CurWorld, formData, t))
        /\ now' = t
        /\ lastOp' = "formSubmit"
        /\ lastArg' = NoArg
        /\ lastRet' = NoRet
        /\ UNCHANGED importCall

\* change of the select-all checkbox
SelectAll(isChecked) ==
    /\ Becomes(handleSelectAll(CurWorld, isChecked))
    /\ lastOp' = "selectAll"
    /\ lastArg' = [NoArg EXCEPT !.overwrite = isChecked]
    /\ lastRet' = NoRet
    /\ UNCHANGED <<now, importCall>>

\* change of the checkbox of row i
ChangeCheckbox(i) ==
    /\ i \in 1..Len(table)
    /\ Becomes(changeCheckbox(CurWorld, i))
    /\ lastOp' = "changeCheckbox"
    /\ lastArg' = [NoArg EXCEPT !.index = i]
    /\ lastRet' = NoRet
    /\ UNCHANGED <<now, importCall>>

\* click of "Hapus Terpilih"
DeleteSelected(confirmed) ==
    /\ Becomes(handleDeleteSelected(CurWorld, confirmed))
    /\ lastOp' = "deleteSelected"
    /\ lastArg' = [NoArg EXCEPT !.overwrite = confirmed]
    /\ lastRet' = NoRet
    /\ UNCHANGED <<now, importCall>>

\* input of the search box
Search(query) ==
    /\ Becomes(handleSearch(CurWorld, query))
    /\ lastOp' = "search"
    /\ lastArg' = NoArg
    /\ lastRet' = NoRet
    /\ UNCHANGED <<now, importCall>>

\* change of the jenis select
Filter(value) ==
    /\ Becomes(handleFilter(CurWorld, "jenis", value))
    /\ lastOp' = "filter"
    /\ lastArg' = NoArg
    /\ lastRet' = NoRet
    /\ UNCHANGED <<now, importCall>>

PreviousPage ==
    /\ Becomes(previousPage(CurWorld))
    /\ lastOp' = "previousPage"
    /\ lastArg' = NoArg
    /\ lastRet' = NoRet
    /\ UNCHANGED <<now, importCall>>

NextPage ==
    /\ Becomes(nextPage(CurWorld))
    /\ lastOp' = "nextPage"
    /\ lastArg' = NoArg
    /\ lastRet' = NoRet
    /\ UNCHANGED <<now, importCall>>

\* click of the edit or the delete button of row i
TableAction(i, action, confirmed) ==
    /\ i \in 1..Len(table)
    /\ Becomes(handleTableAction(CurWorld, table[i].id, action, confirmed))
    /\ lastOp' = action
    /\ lastArg' = NoArg
    /\ lastRet' = NoRet
    /\ UNCHANGED <<now, importCall>>

\* click of the close button or of the backdrop, or Escape, of the visible modal
CloseModal ==
    /\ ~modal.hidden
    /\ modal.timers < MaxTimers
    /\ Becomes(closeModal(CurWorld))
    /\ lastOp' = "closeModal"
    /\ lastArg' = NoArg
    /\ lastRet' = NoRet
    /\ UNCHANGED <<now, importCall>>

\* a timeout of closeModal fires
CloseTimeout ==
    /\ modal.timers > 0
    /\ Becomes(closeTimeout(CurWorld))
    /\ lastOp' = "closeTimeout"
    /\ lastArg' = NoArg
    /\ lastRet' = NoRet
    /\ UNCHANGED <<now, importCall>>

\* submit of the edit form of the visible modal
EditSubmit(formData) ==
    \E t \in Readings :
        /\ ~modal.hidden
        /\ modal.form # <<>>
        /\ modal.timers < MaxTimers
        /\ Becomes(handleEditSubmit(CurWorld, formData, modal.form[1], t))
        /\ now' = t
        /\ lastOp' = "editSubmit"
        /\ lastArg' = NoArg
        /\ lastRet' = [NoRet EXCEPT !.ok = modal'.timers > modal.timers]
        /\ UNCHANGED importCall

\* the events that change the store or the filters
NextApp ==
    \/ \E formData \in FormPool : FormSubmit(formData)
    \/ SelectAll(TRUE)
    \/ \E confirmed \in BOOLEAN : DeleteSelected(confirmed)
    \/ \E query \in AppQueries : Search(query)
    \/ \E value \in AppFilterValues : Filter(value)
    \/ \E i \in 1..itemsPerPage, action \in {"edit", "delete"}, confirmed \in BOOLEAN :
          TableAction(i, action, confirmed)
    \/ CloseTimeout
    \/ \E formData \in EditPool : EditSubmit(formData)

SpecApp == InitApp /\ [][NextApp]_vars

\* the events that change the page or the items of the view
NextPageEvents ==
    \/ \E formData \in FormPool : FormSubmit(formData)
    \/ \E query \in AppQueries : Search(query)
    \/ \E value \in AppFilterValues : Filter(value)
    \/ PreviousPage
    \/ NextPage
    \/ \E i \in 1..itemsPerPage, action \in {"edit", "delete"}, confirmed \in BOOLEAN :
          TableAction(i, action, confirmed)
    \/ CloseTimeout
    \/ \E formData \in EditPool : EditSubmit(formData)

SpecPage == InitApp /\ [][NextPageEvents]_vars

\* the events of the selection
NextSelect ==
    \/ \E isChecked \in BOOLEAN : SelectAll(isChecked)
    \/ \E i \in 1..itemsPerPage : ChangeCheckbox(i)
    \/ \E confirmed \in BOOLEAN : DeleteSelected(confirmed)
    \/ PreviousPage
    \/ NextPage

SpecSelect == InitApp /\ [][NextSelect]_vars

\* the events of the edit modal
NextModal ==
    \/ \E i \in 1..itemsPerPage : TableAction(i, "edit", FALSE)
    \/ CloseModal
    \/ CloseTimeout
    \/ \E formData \in EditPool : EditSubmit(formData)
    \/ NextPage

SpecModal == InitApp /\ [][NextModal]_vars

-----------------------------------------------------------------------------
(* State machine of the stock queries over a store that does not change *)

InitStock ==
    /\ \E st \in StockStores : items = st.items /\ nextId = st.nextId
    /\ now = 0
    /\ searchQuery = NewHandler.searchQuery
    /\ filters = NewHandler.filters
    /\ importCall = NoCall
    /\ app = NewApp
    /\ table = <<>>
    /\ modal = NewModal
    /\ lastOp = "new"
    /\ lastArg = NoArg
    /\ lastRet = NoRet

\* filterHandler.applyAdvancedFilters(itemManager.getAllItems(), advancedFilters)
ApplyAdvancedFilters(advancedFilters) ==
    /\ lastOp' = "applyAdvancedFilters"
    /\ lastArg' = [NoArg EXCEPT !.criteria = advancedFilters]
    /\ lastRet' = [NoRet EXCEPT
                      !.list = applyAdvancedFilters(getAllItems(CurStore), advancedFilters, now)]
    /\ UNCHANGED <<storeVars, filterVars, importCall, uiVars>>

\* filterHandler.getStockLevels(itemManager.getAllItems())
GetStockLevels ==
    /\ lastOp' = "getStockLevels"
    /\ lastArg' = NoArg
    /\ lastRet' = [NoRet EXCEPT !.counts = <<getStockLevels(getAllItems(CurStore))>>]
    /\ UNCHANGED <<storeVars, filterVars, importCall, uiVars>>

\* exportHandler.calculateStatistics(itemManager.getAllItems())
CalculateStatistics ==
    /\ lastOp' = "calculateStatistics"
    /\ lastArg' = NoArg
    /\ lastRet' = [NoRet EXCEPT !.counts = <<calculateStatistics(getAllItems(CurStore))>>]
    /\ UNCHANGED <<storeVars, filterVars, importCall, uiVars>>

\* itemManager.getStatistics()
GetStatistics ==
    /\ lastOp' = "getStatistics"
    /\ lastArg' = NoArg
    /\ lastRet' = [NoRet EXCEPT !.counts = <<getStatistics(CurStore)>>]
    /\ UNCHANGED <<storeVars, filterVars, importCall, uiVars>>

\* itemManager.getLowStockItems()
GetLowStockItems ==
    /\ lastOp' = "getLowStockItems"
    /\ lastArg' = NoArg
    /\ lastRet' = [NoRet EXCEPT !.list = getLowStockItems(CurStore, 10)]
    /\ UNCHANGED <<storeVars, filterVars, importCall, uiVars>>

\* itemManager.getOutOfStockItems()
GetOutOfStockItems ==
    /\ lastOp' = "getOutOfStockItems"
    /\ lastArg' = NoArg
    /\ lastRet' = [NoRet EXCEPT !.list = getOutOfStockItems(CurStore)]
    /\ UNCHANGED <<storeVars, filterVars, importCall, uiVars>>

NextStock ==
    \/ \E advancedFilters \in AdvancedPool : ApplyAdvancedFilters(advancedFilters)
    \/ GetStockLevels
    \/ CalculateStatistics
    \/ GetStatistics
    \/ GetLowStockItems
    \/ GetOutOfStockItems
    \/ \E value \in FilterValues : SetFilter("jenis", value)
    \/ ApplyFilters

SpecStock == InitStock /\ [][NextStock]_vars

-----------------------------------------------------------------------------
(* Properties of the item store *)

PostStore == Store(items', nextId')

\* the item stored under id, in a store that has one
ItemOf(st, id) == getItemById(st, id)[1]

Stored(st, id) == \E i \in 1..Len(getAllItems(st)) : getAllItems(st)[i].id = id

IdsInOrder(st) == [i \in 1..Len(getAllItems(st)) |-> getAllItems(st)[i].id]

\* the time stamps a call that ran from clock reading a to clock reading b can take
Window(a, b) == {Iso(t) : t \in a..b}

UpdateFound == lastOp' = "updateItem" /\ lastRet'.item # <<>>

\* C1: no two items returned by getAllItems() have the same id, after any
\* sequence of addItem, updateItem, deleteItem, importItems and clearAllItems.
C1_UniqueIds ==
    \A i, j \in 1..Len(getAllItems(CurStore)) :
        i # j => getAllItems(CurStore)[i].id # getAllItems(CurStore)[j].id

\* an update whose partial carries the id of another stored item has happened
C1_Witness ==
    /\ lastOp = "updateItem"
    /\ lastRet.item # <<>>
    /\ "id" \in DOMAIN lastArg.data
    /\ lastArg.data.id # lastArg.id
    /\ Stored(CurStore, lastArg.data.id)
    /\ Len(items) = MaxItems

\* C2: addItem never replaces a record: the returned id differs from every id
\* already stored and getAllItems() grows by exactly one item.
C2_AddNeverReplaces ==
    [][lastOp' = "addItem" =>
          /\ ~Stored(CurStore, lastRet'.item[1].id)
          /\ Len(getAllItems(PostStore)) = Len(getAllItems(CurStore)) + 1]_vars

\* C3: deleteItem(id) returns true exactly when id was stored; afterwards
\* getItemById(id) is null, the other items are unchanged and in the same order,
\* and deleting an unknown id changes nothing.
C3_Delete ==
    [][lastOp' = "deleteItem" =>
          LET id == lastArg'.id
          IN  /\ lastRet'.ok = Stored(CurStore, id)
              /\ getItemById(PostStore, id) = <<>>
              /\ \A k \in IdPool \ {id} : getItemById(PostStore, k) = getItemById(CurStore, k)
              /\ getAllItems(PostStore)
                    = SelectSeq(getAllItems(CurStore), LAMBDA it : it.id # id)
              /\ nextId' = nextId
              /\ ~Stored(CurStore, id) => items' = items]_vars

\* a stored item has been deleted from between two others
C3_Witness ==
    /\ lastOp = "deleteItem"
    /\ lastRet.ok
    /\ Len(items) = MaxItems - 1

\* C4: updateItem(id, partial) on a stored id changes only the fields named in
\* partial plus updatedAt; the id stays id even when partial carries another id,
\* and no other item changes.
C4_UpdateFrame ==
    [][UpdateFound =>
          LET id == lastArg'.id
              partial == lastArg'.data
              old == ItemOf(CurStore, id)
              new == ItemOf(PostStore, id)
          IN  /\ Stored(CurStore, id)
              /\ lastRet'.item = <<new>>
              /\ new.id = id
              /\ \A f \in ((DOMAIN old) \cup (DOMAIN new)) \ ((DOMAIN partial) \cup {"updatedAt"}) :
                    f \in DOMAIN old /\ f \in DOMAIN new /\ new[f] = old[f]
              /\ Len(items') = Len(items)
              /\ \A i \in 1..Len(items) :
                    getAllItems(CurStore)[i].id # id
                        => getAllItems(PostStore)[i] = getAllItems(CurStore)[i]]_vars

\* an update that names another id has changed an item that has a field the
\* partial does not name, next to another item
C4_Witness ==
    /\ lastOp = "updateItem"
    /\ lastRet.item # <<>>
    /\ "id" \in DOMAIN lastArg.data
    /\ lastArg.data.id # lastArg.id
    /\ "namaItem" \in DOMAIN lastRet.item[1]
    /\ Len(items) >= 2

\* C5: updateItem with an id that is not stored returns null and leaves the
\* items, their order and the id counter unchanged.
C5_UpdateMissing ==
    [][(lastOp' = "updateItem" /\ ~Stored(CurStore, lastArg'.id)) =>
          /\ lastRet'.item = <<>>
          /\ items' = items
          /\ nextId' = nextId]_vars

\* an update of an id that is not stored has returned null on a store with items
C5_Witness ==
    /\ lastOp = "updateItem"
    /\ lastRet.item = <<>>
    /\ Len(items) >= 2

\* C6: createdAt is immutable: an item that updateItem or importItems leaves in
\* the store keeps its createdAt, whatever the partial or the row carries.
C6_CreatedAtImmutable ==
    [][lastOp' \in {"updateItem", "importItems"} =>
          \A id \in IdPool :
              (Stored(CurStore, id) /\ Stored(PostStore, id))
                  => ItemOf(PostStore, id).createdAt = ItemOf(CurStore, id).createdAt]_vars

\* every mutation stamps updatedAt with the time of the call, whatever the caller
\* supplied
StampedByCall ==
    /\ lastOp' = "addItem" =>
          /\ lastRet'.item[1].updatedAt \in Window(now, now')
          /\ getItemById(PostStore, lastRet'.item[1].id) = lastRet'.item
    /\ UpdateFound =>
          /\ lastRet'.item[1].updatedAt \in Window(now, now')
          /\ getItemById(PostStore, lastArg'.id) = lastRet'.item
    /\ lastOp' = "importItems" =>
          \A j \in 1..Len(items') :
              \/ \E i \in 1..Len(items) : items[i] = items'[j]
              \/ items'[j].v.updatedAt \in Window(now, now')

\* C7 (as claimed): every mutation stamps updatedAt with the time of the call,
\* and after updateItem the updatedAt is strictly later than before the call.
C7_StrictlyLater ==
    [][/\ StampedByCall
       /\ UpdateFound =>
             ItemOf(PostStore, lastArg'.id).updatedAt[2]
                 > ItemOf(CurStore, lastArg'.id).updatedAt[2]]_vars

\* C7 (amended): every mutation stamps updatedAt with the time of the call, and
\* after updateItem the updatedAt is not earlier than before the call.
C7_NotEarlier ==
    [][/\ StampedByCall
       /\ UpdateFound =>
             ItemOf(PostStore, lastArg'.id).updatedAt[2]
                 >= ItemOf(CurStore, lastArg'.id).updatedAt[2]]_vars

\* an addItem whose caller supplied another updatedAt has stamped its own
C7_Witness ==
    /\ lastOp = "addItem"
    /\ "updatedAt" \in DOMAIN lastArg.data
    /\ lastRet.item[1].updatedAt # lastArg.data.updatedAt
    /\ lastRet.item[1].updatedAt = Iso(now)

\* C8: getAllItems() is in insertion order: an added item comes after every
\* item added earlier, updateItem moves nothing, deleteItem removes only the
\* deleted item and keeps the order of the others.
C8_InsertionOrder ==
    [][/\ lastOp' = "addItem" =>
             LET post == getAllItems(PostStore)
                 added == lastRet'.item[1]
             IN  /\ post[Len(post)] = added
                 /\ SelectSeq(post, LAMBDA it : it.id # added.id)
                       = SelectSeq(getAllItems(CurStore), LAMBDA it : it.id # added.id)
       /\ lastOp' = "updateItem" => IdsInOrder(PostStore) = IdsInOrder(CurStore)
       /\ lastOp' = "deleteItem" =>
             getAllItems(PostStore)
                 = SelectSeq(getAllItems(CurStore), LAMBDA it : it.id # lastArg'.id)]_vars

-----------------------------------------------------------------------------
(* Properties of search and filtering *)

Blank(s) == \A i \in 1..Len(s) : s[i] = " "

\* s without the spaces before its first and after its last other character
Trimmed(s) ==
    LET solid == {i \in 1..Len(s) : s[i] # " "}
    IN  IF solid = {} THEN <<>>
        ELSE SubSeq(s, CHOOSE i \in solid : \A j \in solid : i <= j,
                       CHOOSE i \in solid : \A j \in solid : i >= j)

SameLetter(c, d) == c = d \/ {c, d} = {"a", "A"} \/ {c, d} = {"b", "B"}

\* t occurs in s as a run of characters, letter case ignored
ContainsIgnoringCase(s, t) ==
    \E off \in 0..(Len(s) - Len(t)) : \A k \in 1..Len(t) : SameLetter(s[off + k], t[k])

\* one of kodeItem, namaItem, merek, jenis, barcode of item contains t
SearchHit(item, t) ==
    \E f \in {"kodeItem", "namaItem", "merek", "jenis", "barcode"} :
        f \in DOMAIN item /\ ContainsIgnoringCase(item[f][2], t)

NoActiveFilter ==
    /\ searchQuery = Str(<<>>)
    /\ \A i \in 1..Len(filters) : filters[i].v = Str(<<>>)

\* C9: searchItems with an empty or white-space query, and applyFilters of
\* getAllItems() on a handler with an empty query and only empty named filters,
\* both return the items of getAllItems() in the same order.
C9_EmptyReturnsAll ==
    /\ (lastOp = "searchItems" /\ Blank(lastArg.query))
          => lastRet.list = getAllItems(CurStore)
    /\ (lastOp = "applyFilters" /\ NoActiveFilter)
          => lastRet.list = getAllItems(CurStore)

\* applyFilters has run on a store with several items after filters were set and
\* emptied again, one of them a filter the constructor does not know
C9_Witness ==
    /\ lastOp = "applyFilters"
    /\ NoActiveFilter
    /\ Len(filters) > Len(NewHandler.filters)
    /\ Len(lastRet.list) = MaxItems

\* C10: searchItems with a query that is not blank returns exactly the items of
\* getAllItems(), in order, one of whose kodeItem, namaItem, merek, jenis,
\* barcode contains the trimmed query, letter case ignored.
C10_SearchResult ==
    (lastOp = "searchItems" /\ ~Blank(lastArg.query))
        => lastRet.list = SelectSeq(getAllItems(CurStore),
                                    LAMBDA item : SearchHit(item, Trimmed(lastArg.query)))

\* a search with an upper-case, padded query has kept some items and dropped others
C10_Witness ==
    /\ lastOp = "searchItems"
    /\ lastArg.query = <<" ", "A">>
    /\ lastRet.list # <<>>
    /\ Len(lastRet.list) < Len(getAllItems(CurStore))

\* the lower-case form of a character
Lowered(c) == IF c = "A" THEN "a" ELSE IF c = "B" THEN "b" ELSE c

\* t occurs as it is in the lower-cased s
LoweredContains(s, t) ==
    \E off \in 0..(Len(s) - Len(t)) : \A k \in 1..Len(t) : Lowered(s[off + k]) = t[k]

EqualIgnoringCase(s, t) ==
    Len(s) = Len(t) /\ \A k \in 1..Len(s) : SameLetter(s[k], t[k])

FreeTextFields ==
    {"kodeItem", "namaItem", "merek", "jenis", "barcode", "supplier", "keterangan"}

\* the free-text predicate as applyFilters evaluates it on the stored query q
FreeTextKeeps(item, q) ==
    \E f \in FreeTextFields : f \in DOMAIN item /\ LoweredContains(item[f][2], q)

\* the named filter name = value, value not empty
NamedKeeps(item, name, value) ==
    /\ name \in DOMAIN item
    /\ item[name][2] # <<>>
    /\ IF name \in {"jenis", "satuan", "statusJual", "tipe", "systemHpp"}
       THEN EqualIgnoringCase(item[name][2], value)
       ELSE ContainsIgnoringCase(item[name][2], value)

AllNamedKeep(item) ==
    \A i \in 1..Len(filters) :
        filters[i].v[2] # <<>> => NamedKeeps(item, filters[i].k, filters[i].v[2])

Reversed(s) == [i \in 1..Len(s) |-> s[Len(s) + 1 - i]]

C12_SearchIgnoresCase ==
    (lastOp = "applyFilters" /\ searchQuery[2] # <<>>) =>
        \A i \in 1..Len(getAllItems(CurStore)) :
            LET item == getAllItems(CurStore)[i]
            IN  (/\ \E f \in FreeTextFields :
                       f \in DOMAIN item /\ ContainsIgnoringCase(item[f][2], searchQuery[2])
                 /\ AllNamedKeep(item))
                    => \E j \in 1..Len(lastRet.list) : lastRet.list[j] = item

-----------------------------------------------------------------------------
(* Properties of the advanced filters and the stock levels *)

\* r is s with some of its elements left out
IsSubsequence(r, s) ==
    \E f \in [1..Len(r) -> 1..Len(s)] :
        /\ \A i \in 1..Len(r) : s[f[i]] = r[i]
        /\ \A i, j \in 1..Len(r) : i < j => f[i] < f[j]

\* C13: applyFilters and applyAdvancedFilters leave the store, its items and the
\* sequence getAllItems() they are given as they were, and return a subsequence
\* of it: only items of the input, none twice, in their input order.
C13_FilterFrame ==
    [][lastOp' \in {"applyFilters", "applyAdvancedFilters"} =>
          /\ items' = items
          /\ nextId' = nextId
          /\ getAllItems(PostStore) = getAllItems(CurStore)
          /\ IsSubsequence(lastRet'.list, getAllItems(CurStore))]_vars

\* applyAdvancedFilters with the low-stock test has dropped the item between two
\* items it kept
C13_Witness ==
    /\ lastOp = "applyAdvancedFilters"
    /\ "lowStock" \in DOMAIN lastArg.criteria
    /\ Len(getAllItems(CurStore)) = 3
    /\ lastRet.list = <<getAllItems(CurStore)[1], getAllItems(CurStore)[3]>>

\* the number an item's numeric field stands for, 0 when it is absent
NumberOf(item, f) == IF f \in DOMAIN item THEN item[f][2] ELSE 0

\* n is in the range the criteria give under the names lo and hi; an absent lo
\* is 0 and an absent hi is no bound
InRange(n, criteria, lo, hi) ==
    /\ lo \in DOMAIN criteria => n >= criteria[lo][2]
    /\ lo \notin DOMAIN criteria => n >= 0
    /\ hi \in DOMAIN criteria => n <= criteria[hi][2]

RangeNames == {"minPrice", "maxPrice", "minStock", "maxStock"}

\* C14: applyAdvancedFilters with price and stock bounds only returns exactly the
\* items, in order, whose hargaJual is in [minPrice, maxPrice] and whose stok is
\* in [minStock, maxStock], for bounds 0, 1, 2 and 0, 10, 11; an absent lower
\* bound is 0 and an absent upper bound is no bound.
C14_Ranges ==
    (lastOp = "applyAdvancedFilters" /\ DOMAIN lastArg.criteria \subseteq RangeNames) =>
        lastRet.list
            = SelectSeq(getAllItems(CurStore),
                        LAMBDA item :
                            /\ InRange(NumberOf(item, "hargaJual"), lastArg.criteria,
                                       "minPrice", "maxPrice")
                            /\ InRange(NumberOf(item, "stok"), lastArg.criteria,
                                       "minStock", "maxStock"))

\* the stock level of an item by the thresholds 0, 10 and 100
LevelOf(item) ==
    LET stok == NumberOf(item, "stok")
    IN  CASE stok <= 0 -> "outOfStock"
          [] 0 < stok /\ stok <= 10 -> "lowStock"
          [] 10 < stok /\ stok <= 100 -> "normalStock"
          [] stok > 100 -> "highStock"

CountAt(level) ==
    Cardinality({i \in 1..Len(getAllItems(CurStore)) : LevelOf(getAllItems(CurStore)[i]) = level})

\* C15: getStockLevels and calculateStatistics count every item in exactly one of
\* out-of-stock (stok <= 0 or absent), low (0 < stok <= 10), normal
\* (10 < stok <= 100) and high (stok > 100): each count is the number of items
\* of that level and the four counts sum to the number of items.
C15_Partition ==
    lastOp \in {"getStockLevels", "calculateStatistics"} =>
        LET counts == lastRet.counts[1]
        IN  /\ \A level \in {"outOfStock", "lowStock", "normalStock", "highStock"} :
                  counts[level] = CountAt(level)
            /\ counts.outOfStock + counts.lowStock + counts.normalStock + counts.highStock
                  = Len(getAllItems(CurStore))

\* getStockLevels has counted items on both sides of the thresholds 10 and 100
C15_Witness ==
    /\ lastOp = "getStockLevels"
    /\ lastRet.counts[1].lowStock = 1
    /\ lastRet.counts[1].normalStock = 1
    /\ lastRet.counts[1].highStock = 1
    /\ \E i \in 1..Len(items) : NumberOf(items[i].v, "stok") = 100

\* C16: applyAdvancedFilters with only lowStock: true returns the items
\* getLowStockItems() returns (0 < stok <= 10), and with only outOfStock: true
\* the items getOutOfStockItems() returns, items without stok included.
C16_SharedPolicy ==
    /\ (lastOp = "applyAdvancedFilters" /\ lastArg.criteria = [lowStock |-> TRUE])
          => lastRet.list = getLowStockItems(CurStore, 10)
    /\ (lastOp = "applyAdvancedFilters" /\ lastArg.criteria = [outOfStock |-> TRUE])
          => lastRet.list = getOutOfStockItems(CurStore)

-----------------------------------------------------------------------------
(* Properties of importItems *)

\* the results of the call in progress before and after a step
Results == importCall[1].results
PostResults == importCall'[1].results

\* the row the step has processed
StepRow == importCall[1].itemsArray[importCall[1].index]

Counted(results) == results.imported + results.updated + Len(results.errors)

\* C17: importItems never throws, for null rows and rows without fields too:
\* every row step adds one to exactly one of imported, updated and the length
\* of errors, and the summary returned after the last row has
\* imported + updated + errors.length equal to the number of rows.
C17_EveryRowCounted ==
    [][/\ lastOp' = "importRow" =>
             /\ PostResults.imported >= Results.imported
             /\ PostResults.updated >= Results.updated
             /\ Len(PostResults.errors) >= Len(Results.errors)
             /\ Counted(PostResults) = Counted(Results) + 1
       /\ lastOp' = "importItems" =>
             /\ ~lastRet'.threw
             /\ importCall[1].index = Len(lastArg'.rows) + 1
             /\ Counted(lastRet'.summary[1]) = Len(lastArg'.rows)]_vars

\* importItems has returned after a null row and a row it has written
C17_Witness ==
    /\ lastOp = "importItems"
    /\ Len(lastArg.rows) = 2
    /\ lastArg.rows[1] = <<>>
    /\ lastRet.summary[1].imported = 1
    /\ Len(lastRet.summary[1].errors) = 1

\* the row has an id or a kodeItem that is not empty
HasIdOrCode(row) == "id" \in DOMAIN row \/ ("kodeItem" \in DOMAIN row /\ row.kodeItem[2] # <<>>)

\* the lookup of importItems finds a stored item for the row: under the row's id
\* when it has one, else with the row's kodeItem
Matches(row) ==
    IF "id" \in DOMAIN row
    THEN \E i \in 1..Len(items) : items[i].k = row.id
    ELSE \E i \in 1..Len(items) :
            "kodeItem" \in DOMAIN items[i].v /\ items[i].v.kodeItem = row.kodeItem

WithoutUpdatedAt(m) ==
    [i \in 1..Len(m) |->
        [k |-> m[i].k, v |-> [f \in (DOMAIN m[i].v) \ {"updatedAt"} |-> m[i].v[f]]]]

\* C19: importItems(batch, true) run again right after importItems(batch, true)
\* leaves the ids, the order and all fields but updatedAt as the first run left
\* them, and reports imported = 0 and every row it accepts in updated.
C19_Idempotent ==
    (lastOp = "importItems" /\ lastArg.again) =>
        /\ WithoutUpdatedAt(items) = WithoutUpdatedAt(lastArg.before)
        /\ lastRet.summary[1].imported = 0
        /\ lastRet.summary[1].updated
              = Len(lastArg.rows) - Len(lastRet.summary[1].errors)

\* the items that have a kodeItem have different ones
CodesDistinct(m) ==
    \A i, j \in 1..Len(m) :
        (i # j /\ "kodeItem" \in DOMAIN m[i].v /\ "kodeItem" \in DOMAIN m[j].v)
            => m[i].v.kodeItem # m[j].v.kodeItem

\* C20: when the stored items have pairwise different kodeItem before
\* importItems(batch, false), they have pairwise different kodeItem after it.
C20_CodesStayDistinct ==
    (lastOp = "importItems" /\ ~lastArg.overwrite /\ CodesDistinct(lastArg.before))
        => CodesDistinct(items)

\* the key under which importItems writes the row: that of the item its lookup
\* finds, else the row's id, else the next id of the counter
TargetKey(row) ==
    IF Matches(row)
    THEN IF "id" \in DOMAIN row THEN row.id
         ELSE items[CHOOSE i \in 1..Len(items) :
                       /\ "kodeItem" \in DOMAIN items[i].v
                       /\ items[i].v.kodeItem = row.kodeItem
                       /\ \A j \in 1..(i - 1) :
                             ~("kodeItem" \in DOMAIN items[j].v
                               /\ items[j].v.kodeItem = row.kodeItem)].k
    ELSE IF "id" \in DOMAIN row THEN row.id ELSE Num(nextId)

AllDigits(s) == s # <<>> /\ \A i \in 1..Len(s) : s[i] \in {"0", "1", "2", "3"}

RECURSIVE Decimal(_)
Decimal(s) ==
    IF s = <<>> THEN 0
    ELSE 10 * Decimal(SubSeq(s, 1, Len(s) - 1))
            + (CHOOSE d \in 0..3 : <<"0", "1", "2", "3">>[d + 1] = s[Len(s)])

\* the number a row's numeric field is to be stored as: the number itself, the
\* value of a string of digits, 0 for any other string
CoercedNumber(v) ==
    IF v[1] = "num" THEN v
    ELSE IF v[1] = "str" /\ AllDigits(v[2]) THEN <<"num", Decimal(v[2])>>
    ELSE <<"num", 0>>

\* C21: every row that importItems writes is stored with each of its stok,
\* hargaPokok, hargaJual and stokMin as a number: a string of digits as its
\* value, any other string (the empty one too) as 0; an updated item keeps its id.
C21_NumbersCoerced ==
    [][(/\ lastOp' = "importRow"
        /\ StepRow # <<>>
        /\ PostResults.imported + PostResults.updated
              > Results.imported + Results.updated) =>
          LET row == StepRow[1]
              key == TargetKey(row)
              stored == getItemById(PostStore, key)
          IN  /\ stored # <<>>
              /\ stored[1].id = key
              /\ \A f \in {"stok", "hargaPokok", "hargaJual", "stokMin"} \cap DOMAIN row :
                    stored[1][f] = CoercedNumber(row[f])
              /\ PostResults.updated > Results.updated =>
                    \E i \in 1..Len(items) : items[i].k = key /\ items'[i].k = key]_vars

\* the text is the text of an array
IsArrayText(text) == parse(text) # <<>> /\ parse(text)[1][1] = "array"

\* C22: importFromJSON with a text that cannot be parsed, or that parses to a
\* value that is not an array, does not throw: it returns imported = 0,
\* updated = 0 and exactly one error entry, and the store is unchanged.
C22_InvalidJsonReported ==
    [][(lastOp' = "importFromJSON" /\ ~IsArrayText(lastArg'.text)) =>
          /\ ~lastRet'.threw
          /\ lastRet'.summary # <<>>
          /\ lastRet'.summary[1].imported = 0
          /\ lastRet'.summary[1].updated = 0
          /\ Len(lastRet'.summary[1].errors) = 1
          /\ items' = items
          /\ nextId' = nextId]_vars

\* a text JSON.parse rejects has been imported into a store holding two items
C22_Witness ==
    /\ lastOp = "importFromJSON"
    /\ lastArg.text # <<>>
    /\ parse(lastArg.text) = <<>>
    /\ Len(items) >= 2

\* an item without its updatedAt
SansUpdatedAt(item) == [f \in (DOMAIN item) \ {"updatedAt"} |-> item[f]]

\* the ids are numbers other than 0 and the numeric fields hold numbers
PlainNumbers(list) ==
    \A i \in 1..Len(list) :
        /\ IsNum(list[i].id) /\ list[i].id[2] # 0
        /\ \A f \in {"stok", "hargaPokok", "hargaJual", "stokMin"} \cap DOMAIN list[i] :
              IsNum(list[i][f])

\* C28: for every store reached through addItem, updateItem and deleteItem,
\* exportToJSON(), then clearAllItems(), then importFromJSON() of the exported
\* text reports imported = the number of exported items and no errors, and
\* getAllItems() equals the original collection in ids, order and every field
\* other than updatedAt.
C28_JsonRoundTrip ==
    [][lastOp' = "exportClearImport" =>
          LET before == getAllItems(CurStore)
              after == getAllItems(PostStore)
          IN  /\ ~lastRet'.threw
              /\ lastRet'.summary[1].imported = Len(before)
              /\ lastRet'.summary[1].errors = <<>>
              /\ Len(after) = Len(before)
              /\ \A i \in 1..Len(before) :
                    SansUpdatedAt(after[i]) = SansUpdatedAt(before[i])]_vars

\* C28, for stores whose items have a number other than 0 as id and numbers in
\* stok, hargaPokok, hargaJual and stokMin: the round trip reports imported =
\* the number of exported items and no errors, and getAllItems() equals the
\* original collection in ids, order and every field other than updatedAt.
C28_RoundTripOfNumbers ==
    [][(lastOp' = "exportClearImport" /\ PlainNumbers(getAllItems(CurStore))) =>
          LET before == getAllItems(CurStore)
              after == getAllItems(PostStore)
          IN  /\ ~lastRet'.threw
              /\ lastRet'.summary[1].imported = Len(before)
              /\ lastRet'.summary[1].errors = <<>>
              /\ Len(after) = Len(before)
              /\ \A i \in 1..Len(before) :
                    SansUpdatedAt(after[i]) = SansUpdatedAt(before[i])]_vars

\* two items, one of them updated after it was created, have made the round trip
C28_Witness ==
    /\ lastOp = "exportClearImport"
    /\ Len(lastArg.before) = 2
    /\ PlainNumbers(MapValues(lastArg.before))
    /\ \E i \in 1..2 : lastArg.before[i].v.createdAt # lastArg.before[i].v.updatedAt
    /\ lastRet.summary[1].imported = 2

\* what loadFromStorage finds is one of the failures: the storage throws,
\* nothing is saved, the text does not parse, or it is the text of null
LoadFails(storage) ==
    \/ storage.fails
    \/ storage.saved = <<>>
    \/ storage.saved[1] = <<>>
    \/ parse(storage.saved[1]) = <<>>
    \/ parse(storage.saved[1])[1] = JsonNull

\* the saved text is the text of a value that is not an object
NotAnObject(storage) ==
    /\ ~storage.fails
    /\ storage.saved # <<>>
    /\ parse(storage.saved[1]) # <<>>
    /\ parse(storage.saved[1])[1][1] # "object"

\* C23: loadFromStorage and importFilterState never throw, and whenever one
\* returns false (nothing saved, a text that does not parse, a storage error, a
\* payload that is null) searchQuery and every entry of filters are what they
\* were before the call; a payload that is not an object changes nothing either.
C23_FailedLoadKeepsState ==
    [][/\ lastOp' \in {"loadFromStorage", "importFilterState"} =>
            /\ ~lastRet'.threw
            /\ ~lastRet'.ok => (searchQuery' = searchQuery /\ filters' = filters)
       /\ lastOp' = "importFilterState" /\ lastArg'.state = <<>> => ~lastRet'.ok
       /\ lastOp' = "loadFromStorage" /\ LoadFails(lastArg'.storage[1]) => ~lastRet'.ok
       /\ lastOp' = "loadFromStorage" /\ NotAnObject(lastArg'.storage[1]) =>
            (searchQuery' = searchQuery /\ filters' = filters)]_vars

\* a text that does not parse has been loaded into a handler with a query and
\* a filter set
C23_Witness ==
    /\ lastOp = "loadFromStorage"
    /\ ~lastRet.ok
    /\ ~lastArg.storage[1].fails
    /\ lastArg.storage[1].saved # <<>>
    /\ lastArg.storage[1].saved[1] # <<>>
    /\ parse(lastArg.storage[1].saved[1]) = <<>>
    /\ searchQuery # Str(<<>>)
    /\ \E i \in 1..Len(filters) : filters[i].v # Str(<<>>)

\* the entries of a filters object, whatever their order
Entries(fs) == {fs[i] : i \in 1..Len(fs)}

\* C24: for every filter state reached through setSearchQuery and setFilter,
\* with any filter name, importFilterState(exportFilterState()) on a fresh
\* FilterHandler gives the same searchQuery and the same filters mapping, and
\* applyFilters returns the same items on both handlers.
C24_FilterStateRoundTrip ==
    lastOp = "restoreFresh" =>
        /\ lastRet.ok
        /\ lastRet.handler[1].searchQuery = searchQuery
        /\ Entries(lastRet.handler[1].filters) = Entries(filters)
        /\ applyFilters(lastRet.handler[1], getAllItems(CurStore))
              = applyFilters(CurHandler, getAllItems(CurStore))

\* stok x hargaPokok of an item, an absent value counted as 0
CostValue(item) ==
    (IF "stok" \in DOMAIN item THEN item.stok[2] ELSE 0)
        * (IF "hargaPokok" \in DOMAIN item THEN item.hargaPokok[2] ELSE 0)

RECURSIVE TotalCost(_)
TotalCost(list) == IF list = <<>> THEN 0 ELSE CostValue(Head(list)) + TotalCost(Tail(list))

\* the number of items of list whose stok is a number that P holds of
StockCount(list, P(_)) ==
    Cardinality({i \in 1..Len(list) : "stok" \in DOMAIN list[i] /\ P(list[i].stok[2])})

\* C25: getStatistics() does not change the store and returns totalItems = the
\* number of stored items, totalValue = the sum of stok x hargaPokok (an absent
\* value counted as 0), lowStockItems = the number of items with 0 < stok <= 10,
\* outOfStockItems = the number of items with stok <= 0, averageItemValue =
\* totalValue / totalItems (0 for an empty store), and lowStockItems +
\* outOfStockItems is at most totalItems.
C25_Statistics ==
    [][lastOp' = "getStatistics" =>
          LET list == MapValues(items)
              stats == lastRet'.counts[1]
          IN  /\ items' = items /\ nextId' = nextId
              /\ stats.totalItems = Len(list)
              /\ stats.totalValue = TotalCost(list)
              /\ stats.lowStockItems = StockCount(list, LAMBDA n : 0 < n /\ n <= 10)
              /\ stats.outOfStockItems = StockCount(list, LAMBDA n : n <= 0)
              /\ IF list = <<>>
                 THEN stats.averageItemValue[2] = 0
                 ELSE /\ stats.averageItemValue[2] = TotalCost(list)
                      /\ stats.averageItemValue[3] = Len(list)
              /\ stats.lowStockItems + stats.outOfStockItems <= stats.totalItems]_vars

\* the statistics of three items have been taken: one low, one out of stock,
\* and a total value that differs at the selling price
C25_Witness ==
    /\ lastOp = "getStatistics"
    /\ lastRet.counts[1].totalItems = 3
    /\ lastRet.counts[1].lowStockItems = 1
    /\ lastRet.counts[1].outOfStockItems = 1
    /\ lastRet.counts[1].totalValue > 0
    /\ lastRet.counts[1].totalValue # SumValue(MapValues(items), "hargaJual")

-----------------------------------------------------------------------------
(* Properties of the page *)

\* C26: after every completed handler that changes the store or the filter
\* state (form submit, edit save, single delete, delete selected, search input,
\* filter change) filteredItems is applyFilters(getAllItems()).
C26_ViewNeverStale ==
    app.filteredItems = applyFilters(CurHandler, getAllItems(CurStore))

\* an edit has been saved under a jenis filter: the edited item has left the
\* view and another item is still in it
C26_Witness ==
    /\ lastOp = "editSubmit"
    /\ lastRet.ok
    /\ MapGet(filters, "jenis") = <<Str(<<"A">>)>>
    /\ MapHas(items, modal.form[1])
    /\ MapGet(items, modal.form[1])[1].jenis = Str(<<"b">>)
    /\ app.filteredItems # <<>>
    /\ Len(app.filteredItems) < Len(items)

\* C27: ticking the checkbox of a row adds the id of its item to the selected
\* set and unticking removes it, so that a later confirmed "Hapus Terpilih"
\* deletes the ticked items and nothing else and leaves the selection empty.
C27_TickedAreSelected ==
    [][/\ lastOp' = "changeCheckbox" =>
            LET i == lastArg'.index
            IN  app'.selectedItems = IF table'[i].checked
                                     THEN app.selectedItems \cup {table[i].id}
                                     ELSE app.selectedItems \ {table[i].id}
       /\ (lastOp' = "deleteSelected" /\ lastArg'.overwrite) =>
            LET ticked == {table[i].id : i \in {j \in 1..Len(table) : table[j].checked}}
            IN  /\ \A id \in ticked : ~MapHas(items', id)
                /\ \A i \in 1..Len(table) : ~table[i].checked => MapHas(items', table[i].id)
                /\ app'.selectedItems = {}]_vars

\* C29: after any sequence of events 1 <= currentPage <= max(1,
\* ceil(filteredItems.length / itemsPerPage)), and the rendered rows are the
\* contiguous slice of filteredItems of that page, at most itemsPerPage of them.
C29_PageInRange ==
    LET n == Len(app.filteredItems)
        pages == IF n = 0 THEN 1 ELSE (n + itemsPerPage - 1) \div itemsPerPage
        first == (app.currentPage - 1) * itemsPerPage
    IN  /\ 1 <= app.currentPage
        /\ app.currentPage <= pages
        /\ Len(table) <= itemsPerPage
        /\ Len(table) = (IF n - first < itemsPerPage THEN n - first ELSE itemsPerPage)
        /\ \A i \in 1..Len(table) : table[i].id = app.filteredItems[first + i].id

\* the second page is shown and holds fewer rows than a page takes
C29_Witness ==
    /\ lastOp = "nextPage"
    /\ app.currentPage = 2
    /\ Len(table) >= 1
    /\ Len(table) < itemsPerPage

\* C30: a close of the edit modal requested before openEditModal does not
\* touch the modal opened after it: when the timeout of a closeModal fires
\* right after openEditModal(item, callback), with no close or submit since,
\* the modal stays visible and the callback stays registered.
C30_OpenedModalStays ==
    [][(/\ lastOp' = "closeTimeout"
        /\ lastOp = "edit"
        /\ ~modal.hidden
        /\ modal.currentCallback) =>
          (~modal'.hidden /\ modal'.currentCallback)]_vars
====
